---- MODULE Spec2Model ----
(***************************************************************************)
(* A model of lepton: schema nodes that validate values and encode/decode  *)
(* them to a hexadecimal wire string.                                      *)
(*                                                                         *)
(* JavaScript numbers that hold integers are kept as a pair (hi, lo) with  *)
(* value hi * 2^16 + lo and 0 <= lo < 2^16, because the 32-bit ranges of   *)
(* the library (2^32 - 1, -2^31 - 1, ...) do not fit the checker's         *)
(* integers.  A hex string is a sequence of characters: 0..15 are the      *)
(* digits "0".."f" and 16 is "-".                                          *)
(***************************************************************************)
EXTENDS Integers, Sequences, FiniteSets, TLC

VARIABLES pc, schema, input, parsed, encoded, trail, wire, raw, decoded, base, arg, heap

vars == <<pc, schema, input, parsed, encoded, trail, wire, raw, decoded, base, arg, heap>>

(***************************************************************************)
(* JavaScript numbers                                                      *)
(***************************************************************************)
Base == 256 * 256

N(h, l) == [t |-> "number", hi |-> h, lo |-> l]

\* the JS number of a small integer
I(n) == N(n \div Base, n % Base)

NaN == [t |-> "number", nan |-> TRUE]

NumLt(a, b) == a.hi < b.hi \/ (a.hi = b.hi /\ a.lo < b.lo)

NumAdd(a, b) == LET s == a.lo + b.lo IN N(a.hi + b.hi + (s \div Base), s % Base)

NumNeg(a) == IF a.lo = 0 THEN N(-a.hi, 0) ELSE N(-a.hi - 1, Base - a.lo)

NumSub(a, b) == NumAdd(a, NumNeg(b))

\* 2 ** k
Pow2(k) == IF k < 16 THEN N(0, 2 ^ k) ELSE N(2 ^ (k - 16), 0)

\* the signed 32-bit integer of the 16-bit halves h, l
FromHalves(h, l) == (IF h >= Base \div 2 THEN h - Base ELSE h) * Base + l

\* ToInt32 of ECMAScript: the value modulo 2^32, read as a signed 32-bit integer
ToInt32(a) == IF "hi" \in DOMAIN a THEN FromHalves(a.hi % Base, a.lo) ELSE 0

\* a & b on 16-bit halves, bit by bit
BitAnd(a, b) ==
    LET bit(i) == ((a \div 2 ^ i) % 2) * ((b \div 2 ^ i) % 2) * 2 ^ i
    IN bit(0) + bit(1) + bit(2) + bit(3) + bit(4) + bit(5) + bit(6) + bit(7)
       + bit(8) + bit(9) + bit(10) + bit(11) + bit(12) + bit(13) + bit(14) + bit(15)

\* a & b: both operands through ToInt32
JsAnd(a, b) ==
    LET x == ToInt32(a)
        y == ToInt32(b)
    IN I(FromHalves(BitAnd((x \div Base) % Base, (y \div Base) % Base),
                    BitAnd(x % Base, y % Base)))

\* a | b
JsOr(a, b) ==
    LET x == ToInt32(a)
        y == ToInt32(b)
        or(p, q) == p + q - BitAnd(p, q)
    IN I(FromHalves(or((x \div Base) % Base, (y \div Base) % Base),
                    or(x % Base, y % Base)))

\* a << k: the shift count is taken modulo 32, the bits beyond 32 are dropped
JsShl(a, k) ==
    LET x == ToInt32(a)
        h == (x \div Base) % Base
        l == x % Base
        n == k % 32
    IN I(IF n < 16
         THEN FromHalves((h * 2 ^ n + (l * 2 ^ n) \div Base) % Base, (l * 2 ^ n) % Base)
         ELSE FromHalves((l * 2 ^ (n - 16)) % Base, 0))

\* a >> k: sign-propagating
JsSar(a, k) ==
    LET x == ToInt32(a)
    IN I(IF k % 32 = 31 THEN (IF x < 0 THEN -1 ELSE 0) ELSE x \div (2 ^ (k % 32)))

(***************************************************************************)
(* Hex strings: Number.prototype.toString(16), padStart, parseInt(s, 16)   *)
(***************************************************************************)
Minus == 15 + 1

RECURSIVE HexDigits(_)
HexDigits(n) == IF n < 16 THEN <<n>> ELSE HexDigits(n \div 16) \o <<n % 16>>

\* s.padStart(n, "0")
padStart(s, n) == [i \in 1 .. n - Len(s) |-> 0] \o s

\* a.toString(16) for an integer number a
toString16(a) ==
    LET mag == IF a.hi < 0 THEN NumNeg(a) ELSE a
        digits == IF mag.hi = 0 THEN HexDigits(mag.lo)
                  ELSE HexDigits(mag.hi) \o padStart(HexDigits(mag.lo), 4)
    IN IF a.hi < 0 THEN <<Minus>> \o digits ELSE digits

\* s.slice(from, to) and s.slice(from), 0-based as in JS
slice(s, from, to) ==
    LET f == IF from > Len(s) THEN Len(s) ELSE from
        e == IF to > Len(s) THEN Len(s) ELSE to
    IN IF e <= f THEN <<>> ELSE SubSeq(s, f + 1, e)

sliceFrom(s, from) == slice(s, from, Len(s))

RECURSIVE DigitsValue(_, _)
DigitsValue(ds, acc) ==
    IF ds = <<>> THEN acc
    ELSE LET l == acc.lo * 16 + Head(ds)
         IN DigitsValue(Tail(ds), N(acc.hi * 16 + (l \div Base), l % Base))

\* parseInt(s, 16): an optional sign, then the longest prefix of hex digits
parseInt16(s) ==
    LET neg == s # <<>> /\ Head(s) = Minus
        body == IF neg THEN Tail(s) ELSE s
        ds == SubSeq(body, 1, Cardinality({i \in 1 .. Len(body) :
                                              \A j \in 1 .. i : body[j] \in 0 .. 15}))
    IN IF ds = <<>> THEN NaN
       ELSE IF neg THEN NumNeg(DigitsValue(ds, N(0, 0)))
       ELSE DigitsValue(ds, N(0, 0))

\* the hex string of a sequence of bytes, two characters for each
RECURSIVE Hex(_)
Hex(bs) ==
    IF bs = <<>> THEN <<>> ELSE <<Head(bs) \div 16, Head(bs) % 16>> \o Hex(Tail(bs))

(***************************************************************************)
(* Results: a returned value or a thrown error                             *)
(***************************************************************************)
Ok(v) == [ok |-> TRUE, val |-> v]

OkRest(v, r) == [ok |-> TRUE, val |-> v, rest |-> r]

\* LeptonError.create(message): path = [] and issues = [{path, message}]; the message
\* is kept as the kind of error it tells
LeptonError(kind) ==
    [ok |-> FALSE, lepton |-> TRUE, kind |-> kind, path |-> <<>>,
     issues |-> <<[path |-> <<>>, message |-> kind]>>]

\* an error of the runtime (TypeError, RangeError), not a LeptonError
NativeError(kind) ==
    [ok |-> FALSE, lepton |-> FALSE, kind |-> kind, path |-> <<>>, issues |-> <<>>]

Rethrow_samePath(err, key) == err

\* a rethrow that puts the key after the path: err.path = [...err.path, key]
Rethrow_innermostFirst(err, key) ==
    IF err.lepton THEN [err EXCEPT !.path = err.path \o <<key>>] ELSE err

\* catch (err) { if (err instanceof LeptonError) err.path = [key, ...err.path]; throw err; }
Rethrow(err, key) ==
    IF err.lepton THEN [err EXCEPT !.path = <<key>> \o err.path] ELSE err

(***************************************************************************)
(* Values                                                                  *)
(***************************************************************************)
Undefined == [t |-> "undefined"]

Null == [t |-> "null"]

Bool(b) == [t |-> "boolean", b |-> b]

Big(n) == [t |-> "bigint", big |-> n]

Str(s) == [t |-> "string", s |-> s]

Arr(a) == [t |-> "array", a |-> a]

Obj(f) == [t |-> "object", f |-> f]

Fn == [t |-> "function"]

\* typeof v
typeof(v) == IF v.t \in {"null", "array"} THEN "object" ELSE v.t

\* Number.isInteger(v), after typeof v === "number"
isInteger(v) == v.t = "number" /\ "hi" \in DOMAIN v

(***************************************************************************)
(* VarInt                                                                  *)
(***************************************************************************)
RECURSIVE VarIntLoop(_)
VarIntLoop(value) ==
    IF value > 0
    THEN LET byte == value % 128
             next == value \div 128
         IN padStart(toString16(I(IF next > 0 THEN byte + 128 ELSE byte)), 2)
            \o VarIntLoop(next)
    ELSE <<>>

\* encodeVarInt(value: bigint)
encodeVarInt(value) == IF value = 0 THEN <<0, 0>> ELSE VarIntLoop(value)

\* the first loop of decodeVarInt: the bytes read from position i on
RECURSIVE VarIntBytes(_, _)
VarIntBytes(str, i) ==
    IF i < Len(str)
    THEN LET byte == parseInt16(slice(str, i, i + 2))
         IN IF JsAnd(byte, I(128)) = I(0) THEN <<byte>>
            ELSE <<byte>> \o VarIntBytes(str, i + 2)
    ELSE <<>>

\* the second loop of decodeVarInt: value |= BigInt(byte & 0x7f) << shift
RECURSIVE VarIntValue(_, _)
VarIntValue(bytes, k) ==
    IF k > Len(bytes) THEN 0
    ELSE ToInt32(JsAnd(bytes[k], I(127))) * (2 ^ (7 * (k - 1))) + VarIntValue(bytes, k + 1)

\* a decodeVarInt that drops one character per byte read instead of two
decodeVarInt_halfSlice(str) ==
    LET bytes == VarIntBytes(str, 0)
    IN [val |-> VarIntValue(bytes, 1), rest |-> sliceFrom(str, Len(bytes))]

\* decodeVarInt(str): [value, rest]; it never throws
decodeVarInt(str) ==
    LET bytes == VarIntBytes(str, 0)
    IN [val |-> VarIntValue(bytes, 1), rest |-> sliceFrom(str, Len(bytes) * 2)]

(***************************************************************************)
(* Fixed-width integers                                                    *)
(***************************************************************************)
\* a maximum that is one too large: 2 ** (bits - 1)
SignedIntMax_offByOne(width) == Pow2(width * 8 - 1)

\* this.maxValue = 2 ** (bits - 1) - 1
SignedIntMax(width) == NumSub(Pow2(width * 8 - 1), I(1))

\* new LeptonSignedInt(width)
LeptonSignedInt(width) ==
    [k |-> "sint", width |-> width,
     minValue |-> NumNeg(Pow2(width * 8 - 1)), maxValue |-> SignedIntMax(width)]

SignedInt_parse(s, v) ==
    IF typeof(v) # "number" \/ ~isInteger(v) THEN LeptonError("type")
    ELSE IF NumLt(v, s.minValue) \/ NumLt(s.maxValue, v) THEN LeptonError("range")
    ELSE Ok(v)

\* the type and range guards of encode are those of parse
SignedInt_encode(s, v) ==
    LET c == SignedInt_parse(s, v)
    IN IF ~c.ok THEN c
       ELSE LET value == IF NumLt(v, I(0)) THEN NumAdd(Pow2(s.width * 8), v) ELSE v
            IN Ok(padStart(toString16(value), s.width * 2))

SignedInt_rawDecode(s, bytes) ==
    IF Len(bytes) < s.width * 2 THEN LeptonError("insufficient")
    ELSE LET value == parseInt16(slice(bytes, 0, s.width * 2))
             bits == s.width * 8
             isNegative == JsAnd(value, JsShl(I(1), bits - 1)) # I(0)
         IN OkRest(IF isNegative THEN NumSub(value, Pow2(bits)) ELSE value,
                   sliceFrom(bytes, s.width * 2))

\* new LeptonUnsignedInt(width): this.maxValue = 2 ** (width * 8) - 1
LeptonUnsignedInt(width) ==
    [k |-> "uint", width |-> width, maxValue |-> NumSub(Pow2(width * 8), I(1))]

UnsignedInt_parse(s, v) ==
    IF typeof(v) # "number" \/ ~isInteger(v) THEN LeptonError("type")
    ELSE IF NumLt(v, I(0)) \/ NumLt(s.maxValue, v) THEN LeptonError("range")
    ELSE Ok(v)

\* the type and range guards of encode are those of parse
UnsignedInt_encode(s, v) ==
    LET c == UnsignedInt_parse(s, v)
    IN IF ~c.ok THEN c ELSE Ok(padStart(toString16(v), s.width * 2))

UnsignedInt_rawDecode(s, bytes) ==
    IF Len(bytes) < s.width * 2 THEN LeptonError("insufficient")
    ELSE OkRest(parseInt16(slice(bytes, 0, s.width * 2)), sliceFrom(bytes, s.width * 2))

(***************************************************************************)
(* Bit-width integers                                                      *)
(***************************************************************************)
\* new LeptonBits(bitWidth): throws unless 1 <= bitWidth <= 32;
\* this.maxValue = (1 << bitWidth) - 1
LeptonBits(bitWidth) ==
    IF bitWidth <= 0 \/ bitWidth > 32 THEN LeptonError("bitWidth")
    ELSE Ok([k |-> "bits", bitWidth |-> bitWidth,
             maxValue |-> NumSub(JsShl(I(1), bitWidth), I(1))])

Bits_parse(s, v) ==
    IF typeof(v) # "number" \/ ~isInteger(v) THEN LeptonError("type")
    ELSE IF NumLt(v, I(0)) \/ NumLt(s.maxValue, v) THEN LeptonError("range")
    ELSE Ok(v)

RECURSIVE BitsEncodeLoop(_, _, _)
BitsEncodeLoop(value, bytesNeeded, i) ==
    IF i >= bytesNeeded THEN <<>>
    ELSE LET sh == (bytesNeeded - i - 1) * 8
             shift == IF sh > 0 THEN sh ELSE 0
             byteValue == JsAnd(JsSar(value, shift), I(255))
         IN padStart(toString16(byteValue), 2) \o BitsEncodeLoop(value, bytesNeeded, i + 1)

\* the guards of encode are those of parse; bytesNeeded = Math.ceil(bitWidth / 8)
Bits_encode(s, v) ==
    LET c == Bits_parse(s, v)
    IN IF ~c.ok THEN c ELSE Ok(BitsEncodeLoop(v, (s.bitWidth + 7) \div 8, 0))

RECURSIVE BitsDecodeLoop(_, _, _, _)
BitsDecodeLoop(bytes, bytesNeeded, i, value) ==
    IF i >= bytesNeeded THEN value
    ELSE LET byteValue == parseInt16(slice(bytes, i * 2, i * 2 + 2))
         IN BitsDecodeLoop(bytes, bytesNeeded, i + 1, JsOr(JsShl(value, 8), byteValue))

Bits_rawDecode(s, bytes) ==
    LET bytesNeeded == (s.bitWidth + 7) \div 8
    IN IF Len(bytes) < bytesNeeded * 2 THEN LeptonError("insufficient")
       ELSE LET value == BitsDecodeLoop(bytes, bytesNeeded, 0, I(0))
                masked == IF s.bitWidth % 8 # 0
                          THEN JsAnd(value, NumSub(JsShl(I(1), s.bitWidth), I(1)))
                          ELSE value
            IN OkRest(masked, sliceFrom(bytes, bytesNeeded * 2))

(***************************************************************************)
(* Boolean and BigVarInt                                                   *)
(***************************************************************************)
LeptonBoolean == [k |-> "boolean"]

Boolean_parse(v) ==
    IF typeof(v) # "boolean" THEN LeptonError("type") ELSE Ok(Bool(v.b))

Boolean_encode(v) ==
    IF typeof(v) # "boolean" THEN LeptonError("type")
    ELSE Ok(padStart(toString16(I(IF v.b THEN 1 ELSE 0)), 2))

\* a decoder that reads only the byte 01 as true
Boolean_rawDecode_onlyOne(bytes) ==
    IF Len(bytes) < 2 THEN LeptonError("insufficient")
    ELSE OkRest(Bool(slice(bytes, 0, 2) = <<0, 1>>), sliceFrom(bytes, 2))

\* !!value is false for 0 and for NaN
Boolean_rawDecode(bytes) ==
    IF Len(bytes) < 2 THEN LeptonError("insufficient")
    ELSE LET value == parseInt16(slice(bytes, 0, 2))
         IN OkRest(Bool("hi" \in DOMAIN value /\ value # I(0)), sliceFrom(bytes, 2))

LeptonBigInt == [k |-> "bigint"]

BigInt_parse(v) == IF typeof(v) # "bigint" THEN LeptonError("type") ELSE Ok(v)

BigInt_encode(v) ==
    IF typeof(v) # "bigint" THEN LeptonError("type") ELSE Ok(encodeVarInt(v.big))

BigInt_rawDecode(bytes) ==
    LET d == decodeVarInt(bytes) IN OkRest(Big(d.val), d.rest)

(***************************************************************************)
(* Strings: a string is its sequence of UTF-16 code units.  TextEncoder    *)
(* and TextDecoder are modelled by the WHATWG encoding standard.           *)
(***************************************************************************)
\* whether the code units of u start with a surrogate pair
IsPair(u) ==
    /\ Len(u) >= 2
    /\ u[1] >= 55296 /\ u[1] <= 56319
    /\ u[2] >= 56320 /\ u[2] <= 57343

\* a JS string to scalar values (USVString): a lone surrogate becomes U+FFFD
RECURSIVE ScalarValues(_)
ScalarValues(u) ==
    IF u = <<>> THEN <<>>
    ELSE IF IsPair(u)
    THEN <<65536 + (u[1] - 55296) * 1024 + (u[2] - 56320)>> \o ScalarValues(Tail(Tail(u)))
    ELSE IF u[1] >= 55296 /\ u[1] <= 57343
    THEN <<65533>> \o ScalarValues(Tail(u))
    ELSE <<u[1]>> \o ScalarValues(Tail(u))

\* the UTF-8 bytes of a sequence of scalar values
RECURSIVE Utf8Encode(_)
Utf8Encode(cs) ==
    IF cs = <<>> THEN <<>>
    ELSE LET c == Head(cs)
         IN (IF c < 128 THEN <<c>>
             ELSE IF c < 2048 THEN <<192 + (c \div 64), 128 + (c % 64)>>
             ELSE IF c < 65536
             THEN <<224 + (c \div 4096), 128 + ((c \div 64) % 64), 128 + (c % 64)>>
             ELSE <<240 + (c \div 262144), 128 + ((c \div 4096) % 64),
                    128 + ((c \div 64) % 64), 128 + (c % 64)>>)
            \o Utf8Encode(Tail(cs))

\* new TextEncoder().encode(units)
TextEncode(units) == Utf8Encode(ScalarValues(units))

\* the UTF-8 decoder of the encoding standard, with replacement of errors
RECURSIVE Utf8Decode(_, _, _, _, _)
Utf8Decode(bs, cp, needed, lower, upper) ==
    IF bs = <<>> THEN (IF needed # 0 THEN <<65533>> ELSE <<>>)
    ELSE LET b == Head(bs)
             r == Tail(bs)
         IN IF needed = 0
            THEN IF b <= 127 THEN <<b>> \o Utf8Decode(r, 0, 0, 128, 191)
                 ELSE IF b >= 194 /\ b <= 223 THEN Utf8Decode(r, b % 32, 1, 128, 191)
                 ELSE IF b >= 224 /\ b <= 239
                 THEN Utf8Decode(r, b % 16, 2, IF b = 224 THEN 160 ELSE 128,
                                 IF b = 237 THEN 159 ELSE 191)
                 ELSE IF b >= 240 /\ b <= 244
                 THEN Utf8Decode(r, b % 8, 3, IF b = 240 THEN 144 ELSE 128,
                                 IF b = 244 THEN 143 ELSE 191)
                 ELSE <<65533>> \o Utf8Decode(r, 0, 0, 128, 191)
            ELSE IF b < lower \/ b > upper
            THEN <<65533>> \o Utf8Decode(bs, 0, 0, 128, 191)
            ELSE IF needed = 1
            THEN <<cp * 64 + (b % 64)>> \o Utf8Decode(r, 0, 0, 128, 191)
            ELSE Utf8Decode(r, cp * 64 + (b % 64), needed - 1, 128, 191)

\* scalar values to UTF-16 code units
RECURSIVE CodeUnits(_)
CodeUnits(cs) ==
    IF cs = <<>> THEN <<>>
    ELSE IF Head(cs) >= 65536
    THEN <<55296 + ((Head(cs) - 65536) \div 1024), 56320 + ((Head(cs) - 65536) % 1024)>>
         \o CodeUnits(Tail(cs))
    ELSE <<Head(cs)>> \o CodeUnits(Tail(cs))

\* new TextDecoder().decode(bytes): ignoreBOM is false, a leading BOM is dropped
TextDecode(bs) ==
    LET body == IF Len(bs) >= 3 /\ SubSeq(bs, 1, 3) = <<239, 187, 191>>
                THEN SubSeq(bs, 4, Len(bs)) ELSE bs
    IN CodeUnits(Utf8Decode(body, 0, 0, 128, 191))

\* decimal digits of a non-negative integer number, as code units
RECURSIVE DecDigits(_)
DecDigits(a) ==
    LET r == a.hi % 10
        l == r * Base + a.lo
        q == N(a.hi \div 10, l \div 10)
    IN IF q = I(0) THEN <<48 + (l % 10)>> ELSE DecDigits(q) \o <<48 + (l % 10)>>

\* String(v), the string conversion of a value; the model's functions print as "f"
RECURSIVE ToStringJS(_)
RECURSIVE JoinComma(_)
JoinComma(a) ==
    IF a = <<>> THEN <<>>
    ELSE LET h == IF Head(a).t \in {"undefined", "null"} THEN <<>> ELSE ToStringJS(Head(a))
         IN IF Len(a) = 1 THEN h ELSE h \o <<44>> \o JoinComma(Tail(a))

ToStringJS(v) ==
    CASE v.t = "string" -> v.s
      [] v.t = "undefined" -> <<117, 110, 100, 101, 102, 105, 110, 101, 100>>
      [] v.t = "null" -> <<110, 117, 108, 108>>
      [] v.t = "boolean" -> IF v.b THEN <<116, 114, 117, 101>> ELSE <<102, 97, 108, 115, 101>>
      [] v.t = "bigint" -> IF v.big < 0 THEN <<45>> \o DecDigits(I(-v.big)) ELSE DecDigits(I(v.big))
      [] v.t = "number" ->
            IF "nan" \in DOMAIN v THEN <<78, 97, 78>>
            ELSE IF "half" \in DOMAIN v
            THEN (IF v.half < 0 THEN <<45>> \o DecDigits(I(-v.half - 1)) ELSE DecDigits(I(v.half)))
                 \o <<46, 53>>
            ELSE IF v.hi < 0 THEN <<45>> \o DecDigits(NumNeg(v)) ELSE DecDigits(v)
      [] v.t = "array" -> JoinComma(v.a)
      [] v.t = "function" -> <<102>>
      [] OTHER -> <<91, 111, 98, 106, 101, 99, 116, 32, 79, 98, 106, 101, 99, 116, 93>>

LeptonString == [k |-> "string"]

String_parse(v) == IF typeof(v) # "string" THEN LeptonError("type") ELSE Ok(v)

RECURSIVE HexOfBytes(_)
HexOfBytes(bs) ==
    IF bs = <<>> THEN <<>>
    ELSE padStart(toString16(I(Head(bs))), 2) \o HexOfBytes(Tail(bs))

\* LeptonString.encode: no type check; TextEncoder.encode(value) converts its
\* argument to a string, and takes "" for undefined
String_encode(v) ==
    LET utf8Bytes == TextEncode(IF v.t = "undefined" THEN <<>> ELSE ToStringJS(v))
    IN Ok(encodeVarInt(Len(utf8Bytes)) \o HexOfBytes(utf8Bytes))

RECURSIVE StrBytes(_, _, _)
StrBytes(rest, strLength, i) ==
    IF i >= strLength THEN <<>>
    ELSE LET b == parseInt16(slice(rest, i * 2, i * 2 + 2))
         IN <<ToInt32(b) % 256>> \o StrBytes(rest, strLength, i + 1)

String_rawDecode(bytes) ==
    LET d == decodeVarInt(bytes)
        strLength == d.val
    IN IF Len(d.rest) < strLength * 2 THEN LeptonError("insufficient")
       ELSE OkRest(Str(TextDecode(StrBytes(d.rest, strLength, 0))),
                   sliceFrom(d.rest, strLength * 2))

(***************************************************************************)
(* JavaScript objects.  A shape is an ordinary object: the sequence of its *)
(* own properties in the order Object.entries gives them, array-index keys *)
(* first in ascending order, then the other keys in insertion order.  A    *)
(* value object is the function from its own keys to their values.         *)
(***************************************************************************)
MaxIndex == 3

IsIndexKey(key) == \E i \in 0 .. MaxIndex : ToString(i) = key

KeyIndex(key) == CHOOSE i \in 0 .. MaxIndex : ToString(i) = key

\* the property names every object inherits from Object.prototype
ObjectPrototypeKeys ==
    {"constructor", "toString", "toLocaleString", "valueOf", "hasOwnProperty",
     "isPrototypeOf", "propertyIsEnumerable"}

Prop(key, val) == [key |-> key, val |-> val]

HasOwn(o, key) == \E i \in 1 .. Len(o) : o[i].key = key

\* key in o, for a shape o
InShape(o, key) == HasOwn(o, key) \/ key \in ObjectPrototypeKeys

\* o[key] = val: an existing property keeps its place; a new one goes after the
\* smaller array-index keys if it is one, and last otherwise
SetProp(o, key, val) ==
    IF HasOwn(o, key)
    THEN [i \in 1 .. Len(o) |-> IF o[i].key = key THEN Prop(key, val) ELSE o[i]]
    ELSE LET at == IF IsIndexKey(key)
                   THEN Cardinality({i \in 1 .. Len(o) :
                                        /\ IsIndexKey(o[i].key)
                                        /\ KeyIndex(o[i].key) < KeyIndex(key)}) + 1
                   ELSE Len(o) + 1
         IN SubSeq(o, 1, at - 1) \o <<Prop(key, val)>> \o SubSeq(o, at, Len(o))

\* {...o, ...more}, and an object literal whose properties are written in the order of more
RECURSIVE Spread(_, _)
Spread(o, more) ==
    IF more = <<>> THEN o
    ELSE Spread(SetProp(o, Head(more).key, Head(more).val), Tail(more))

ObjectLiteral(decl) == Spread(<<>>, decl)

Keys(o) == [i \in 1 .. Len(o) |-> o[i].key]

\* Object.keys(v) of a value, as a set
OwnKeys(v) ==
    CASE v.t = "object" -> DOMAIN v.f
      [] v.t = "array" -> {ToString(i - 1) : i \in 1 .. Len(v.a)}
      [] v.t = "string" -> {ToString(i - 1) : i \in 1 .. Len(v.s)}
      [] OTHER -> {}

\* key in v, for a value v that is an object or an array; an array has further
\* names that are not enumerable own keys
HasProp(v, key) ==
    \/ key \in OwnKeys(v)
    \/ key \in ObjectPrototypeKeys
    \/ v.t = "array" /\ key \in {"length", "concat", "map", "push", "slice"}

\* v[key], for a value v that is neither undefined nor null
GetProp(v, key) ==
    IF key \in OwnKeys(v)
    THEN CASE v.t = "object" -> v.f[key]
           [] v.t = "array" -> v.a[KeyIndex(key) + 1]
           [] v.t = "string" -> Str(<<v.s[KeyIndex(key) + 1]>>)
    ELSE IF key = "length" /\ v.t \in {"array", "string"}
    THEN I(Len(IF v.t = "array" THEN v.a ELSE v.s))
    ELSE IF HasProp(v, key) THEN Fn
    ELSE Undefined

(***************************************************************************)
(* Schema nodes that wrap other nodes                                      *)
(***************************************************************************)
LeptonOptional(wrappedType) == [k |-> "optional", wrappedType |-> wrappedType]

LeptonNullable(wrappedType) == [k |-> "nullable", wrappedType |-> wrappedType]

LeptonArray(elementType) == [k |-> "array", elementType |-> elementType]

\* new LeptonObject(shape, isStrict)
LeptonObject(shape, isStrict) == [k |-> "object", shape |-> shape, isStrict |-> isStrict]

\* x instanceof LeptonOptional
\* no schema counts as optional
IsOptional_never(s) == FALSE

IsOptional(s) == "k" \in DOMAIN s /\ s.k = "optional"

\* the elements a for...of loop draws from a string: one per code point
RECURSIVE StringIter(_)
StringIter(u) ==
    IF u = <<>> THEN <<>>
    ELSE IF IsPair(u)
    THEN <<Str(<<u[1], u[2]>>)>> \o StringIter(Tail(Tail(u)))
    ELSE <<Str(<<u[1]>>)>> \o StringIter(Tail(u))

RECURSIVE parse(_, _)
RECURSIVE encode(_, _)
RECURSIVE rawDecode(_, _)
RECURSIVE ArrayParseLoop(_, _, _)
RECURSIVE ArrayEncodeLoop(_, _)
RECURSIVE ArrayDecodeLoop(_, _, _, _, _)
RECURSIVE ObjectParseLoop(_, _, _, _)
RECURSIVE ObjectEncodeLoop(_, _, _)
RECURSIVE ObjectDecodeLoop(_, _, _, _)

(***************************************************************************)
(* Optional and Nullable                                                   *)
(***************************************************************************)
Optional_parse(s, v) == IF v = Undefined THEN Ok(Undefined) ELSE parse(s.wrappedType, v)

Optional_encode(s, v) ==
    IF v = Undefined THEN Ok(<<0, 0>>)
    ELSE LET e == encode(s.wrappedType, v)
         IN IF e.ok THEN Ok(<<0, 1>> \o e.val) ELSE e

Optional_rawDecode(s, bytes) ==
    IF Len(bytes) < 2 THEN LeptonError("insufficient")
    ELSE LET presenceFlag == parseInt16(slice(bytes, 0, 2))
             rest == sliceFrom(bytes, 2)
         IN IF presenceFlag = I(0) THEN OkRest(Undefined, rest)
            ELSE rawDecode(s.wrappedType, rest)

Nullable_parse(s, v) == IF v = Null THEN Ok(Null) ELSE parse(s.wrappedType, v)

Nullable_encode_optionalFlags(s, v) ==
    IF v = Null THEN Ok(<<0, 0>>)
    ELSE LET e == encode(s.wrappedType, v)
         IN IF e.ok THEN Ok(<<0, 1>> \o e.val) ELSE e

Nullable_encode(s, v) ==
    IF v = Null THEN Ok(<<0, 1>>)
    ELSE LET e == encode(s.wrappedType, v)
         IN IF e.ok THEN Ok(<<0, 0>> \o e.val) ELSE e

Nullable_rawDecode(s, bytes) ==
    IF Len(bytes) < 2 THEN LeptonError("insufficient")
    ELSE LET nullFlag == parseInt16(slice(bytes, 0, 2))
             rest == sliceFrom(bytes, 2)
         IN IF nullFlag = I(1) THEN OkRest(Null, rest)
            ELSE rawDecode(s.wrappedType, rest)

(***************************************************************************)
(* Array                                                                   *)
(***************************************************************************)
\* the loop of LeptonArray.parse from element i (1-based) on: Ok(elements) or the error
ArrayParseLoop(s, a, i) ==
    IF i > Len(a) THEN Ok(<<>>)
    ELSE LET r == parse(s.elementType, a[i])
         IN IF ~r.ok THEN Rethrow(r, ToString(i - 1))
            ELSE LET more == ArrayParseLoop(s, a, i + 1)
                 IN IF more.ok THEN Ok(<<r.val>> \o more.val) ELSE more

Array_parse(s, v) ==
    IF v.t # "array" THEN LeptonError("type")
    ELSE LET r == ArrayParseLoop(s, v.a, 1)
         IN IF r.ok THEN Ok(Arr(r.val)) ELSE r

ArrayEncodeLoop(s, a) ==
    IF a = <<>> THEN Ok(<<>>)
    ELSE LET e == encode(s.elementType, Head(a))
         IN IF ~e.ok THEN e
            ELSE LET more == ArrayEncodeLoop(s, Tail(a))
                 IN IF more.ok THEN Ok(e.val \o more.val) ELSE more

\* LeptonArray.encode: value.length and the iteration are taken from whatever is given
Array_encode(s, v) ==
    IF v.t \notin {"array", "string"} THEN NativeError("TypeError")
    ELSE LET elements == IF v.t = "array" THEN v.a ELSE StringIter(v.s)
             length == IF v.t = "array" THEN Len(v.a) ELSE Len(v.s)
             body == ArrayEncodeLoop(s, elements)
         IN IF body.ok THEN Ok(encodeVarInt(length) \o body.val) ELSE body

ArrayDecodeLoop(s, remaining, arrayLength, i, result) ==
    IF i >= arrayLength THEN OkRest(Arr(result), remaining)
    ELSE LET r == rawDecode(s.elementType, remaining)
         IN IF ~r.ok THEN Rethrow(r, ToString(i))
            ELSE ArrayDecodeLoop(s, r.rest, arrayLength, i + 1, Append(result, r.val))

Array_rawDecode(s, bytes) ==
    LET d == decodeVarInt(bytes)
    IN ArrayDecodeLoop(s, d.rest, d.val, 0, <<>>)

(***************************************************************************)
(* Object                                                                  *)
(***************************************************************************)
\* the loop of LeptonObject.parse from entry i on; result is the object built so far
ObjectParseLoop(s, v, i, result) ==
    IF i > Len(s.shape) THEN Ok(Obj(result))
    ELSE LET key == s.shape[i].key
             sch == s.shape[i].val
         IN IF ~HasProp(v, key) /\ ~IsOptional(sch) THEN LeptonError("missing")
            ELSE IF HasProp(v, key)
            THEN LET r == parse(sch, GetProp(v, key))
                 IN IF ~r.ok THEN Rethrow(r, key)
                    ELSE ObjectParseLoop(s, v, i + 1,
                             [x \in DOMAIN result \cup {key} |->
                                 IF x = key THEN r.val ELSE result[x]])
            ELSE ObjectParseLoop(s, v, i + 1, result)

Object_parse(s, v) ==
    LET extraKeys == {key \in OwnKeys(v) : ~InShape(s.shape, key)}
    IN IF typeof(v) # "object" \/ v = Null THEN LeptonError("type")
       ELSE IF s.isStrict /\ extraKeys # {} THEN LeptonError("unknown")
       ELSE ObjectParseLoop(s, v, 1, <<>>)

\* the loop of LeptonObject.encode; value[key] throws a TypeError on undefined and null
ObjectEncodeLoop(s, v, i) ==
    IF i > Len(s.shape) THEN Ok(<<>>)
    ELSE IF v.t \in {"undefined", "null"} THEN NativeError("TypeError")
    ELSE LET e == encode(s.shape[i].val, GetProp(v, s.shape[i].key))
         IN IF ~e.ok THEN e
            ELSE LET more == ObjectEncodeLoop(s, v, i + 1)
                 IN IF more.ok THEN Ok(e.val \o more.val) ELSE more

\* the fields written last to first
Object_encode_reversed(s, v) ==
    ObjectEncodeLoop([s EXCEPT !.shape = [i \in 1 .. Len(s.shape) |->
                                            s.shape[Len(s.shape) + 1 - i]]], v, 1)

Object_encode(s, v) == ObjectEncodeLoop(s, v, 1)

ObjectDecodeLoop(s, remaining, i, result) ==
    IF i > Len(s.shape) THEN OkRest(Obj(result), remaining)
    ELSE LET key == s.shape[i].key
             r == rawDecode(s.shape[i].val, remaining)
         IN IF ~r.ok THEN Rethrow(r, key)
            ELSE ObjectDecodeLoop(s, r.rest, i + 1,
                     [x \in DOMAIN result \cup {key} |->
                         IF x = key THEN r.val ELSE result[x]])

Object_rawDecode(s, bytes) == ObjectDecodeLoop(s, bytes, 1, <<>>)

\* LeptonObject.strict()
strict(s) == LeptonObject(s.shape, TRUE)

\* LeptonObject.extend(shape)
extend(s, shape) == LeptonObject(Spread(s.shape, shape), s.isStrict)

\* the loop of LeptonObject.pick over keys; this.shape[key] of an inherited name is
\* a function of Object.prototype
RECURSIVE PickLoop(_, _, _)
PickLoop(shape, keys, newShape) ==
    IF keys = <<>> THEN newShape
    ELSE LET key == Head(keys)
             got == IF HasOwn(shape, key)
                    THEN shape[CHOOSE i \in 1 .. Len(shape) : shape[i].key = key].val
                    ELSE Fn
         IN PickLoop(shape, Tail(keys),
                     IF InShape(shape, key) THEN SetProp(newShape, key, got) ELSE newShape)

\* LeptonObject.pick(keys)
\* a pick that filters the entries of the shape, as omit does
pick_filterEntries(s, keys) ==
    LeptonObject(SelectSeq(s.shape, LAMBDA e : \E i \in 1 .. Len(keys) : keys[i] = e.key),
                 s.isStrict)

pick(s, keys) == LeptonObject(PickLoop(s.shape, keys, <<>>), s.isStrict)

\* the loop of LeptonObject.omit over Object.entries(this.shape)
RECURSIVE OmitLoop(_, _, _)
OmitLoop(entries, keysSet, newShape) ==
    IF entries = <<>> THEN newShape
    ELSE OmitLoop(Tail(entries), keysSet,
                  IF Head(entries).key \notin keysSet
                  THEN SetProp(newShape, Head(entries).key, Head(entries).val)
                  ELSE newShape)

\* LeptonObject.omit(keys)
omit(s, keys) ==
    LeptonObject(OmitLoop(s.shape, {keys[i] : i \in 1 .. Len(keys)}, <<>>), s.isStrict)

\* mergeShapes(first, second): {...first, ...second}
mergeShapes(first, second) == Spread(first, second)

merge_strictAnd(s, other) ==
    LeptonObject(mergeShapes(s.shape, other.shape), s.isStrict /\ other.isStrict)

\* LeptonObject.merge(schema)
merge(s, other) ==
    LeptonObject(mergeShapes(s.shape, other.shape), s.isStrict \/ other.isStrict)

\* LeptonObject.partial(): schema.optional() of every field that is not Optional;
\* on a value that is not a node, optional is not a function
partial(s) ==
    IF \E i \in 1 .. Len(s.shape) : "k" \notin DOMAIN s.shape[i].val
    THEN NativeError("TypeError")
    ELSE Ok(LeptonObject(
                [i \in 1 .. Len(s.shape) |->
                    Prop(s.shape[i].key,
                         IF IsOptional(s.shape[i].val) THEN s.shape[i].val
                         ELSE LeptonOptional(s.shape[i].val))],
                s.isStrict))

(***************************************************************************)
(* Enum: a list of strings, written as the index of the value              *)
(***************************************************************************)
LeptonEnum_noUniqueCheck(values) ==
    IF values.t # "array" THEN LeptonError("notArray")
    ELSE IF Len(values.a) = 0 THEN LeptonError("empty")
    ELSE IF \E i \in 1 .. Len(values.a) : typeof(values.a[i]) # "string"
    THEN LeptonError("notString")
    ELSE Ok([k |-> "enum", values |-> values.a,
             valueMap |-> {values.a[i] : i \in 1 .. Len(values.a)}])

\* new LeptonEnum(values), for any value given as the list
LeptonEnum(values) ==
    IF values.t \in {"undefined", "null"} THEN LeptonError("null")
    ELSE IF values.t # "array" THEN LeptonError("notArray")
    ELSE IF Len(values.a) = 0 THEN LeptonError("empty")
    ELSE IF \E i \in 1 .. Len(values.a) : typeof(values.a[i]) # "string"
    THEN LeptonError("notString")
    ELSE IF Cardinality({values.a[i] : i \in 1 .. Len(values.a)}) # Len(values.a)
    THEN LeptonError("unique")
    ELSE Ok([k |-> "enum", values |-> values.a,
             valueMap |-> {values.a[i] : i \in 1 .. Len(values.a)}])

\* array.indexOf(v): the 0-based index of the first element strictly equal to v, or -1
indexOf(array, v) ==
    IF \E i \in 1 .. Len(array) : array[i] = v
    THEN (CHOOSE i \in 1 .. Len(array) :
             array[i] = v /\ \A j \in 1 .. i - 1 : array[j] # v) - 1
    ELSE -1

\* LeptonEnum.parse: this.valueMap.has(String(input)), and the input is returned as given
Enum_parse(s, v) ==
    IF Str(ToStringJS(v)) \notin s.valueMap THEN LeptonError("invalid") ELSE Ok(v)

\* LeptonEnum.encode: index.toString(16).padStart(2, "0")
Enum_encode(s, v) ==
    LET c == Enum_parse(s, v)
    IN IF ~c.ok THEN c ELSE Ok(padStart(toString16(I(indexOf(s.values, v))), 2))

\* values[index] for the index parseInt gave: undefined outside the array
ElementAt(values, index) ==
    IF isInteger(index) /\ ~NumLt(index, I(0)) /\ NumLt(index, I(Len(values)))
    THEN values[ToInt32(index) + 1]
    ELSE Undefined

\* LeptonEnum._rawDecode; index >= length is false for NaN
Enum_rawDecode(s, bytes) ==
    IF Len(bytes) < 2 THEN LeptonError("insufficient")
    ELSE LET index == parseInt16(slice(bytes, 0, 2))
         IN IF isInteger(index) /\ ~NumLt(index, I(Len(s.values)))
            THEN LeptonError("index")
            ELSE OkRest(ElementAt(s.values, index), sliceFrom(bytes, 2))

exclude_firstOnly(s, values) ==
    LeptonEnum(Arr(SelectSeq(s.values, LAMBDA val :
                      Len(values.a) = 0 \/ values.a[1] # val)))

\* LeptonEnum.exclude(values), values an array
exclude(s, values) ==
    LET filteredValues == SelectSeq(s.values, LAMBDA val :
                              \A i \in 1 .. Len(values.a) : values.a[i] # val)
    IN IF Len(filteredValues) = 0 THEN LeptonError("excludeAll")
       ELSE LeptonEnum(Arr(filteredValues))

extract_filterReceiver(s, values) ==
    IF \E i \in 1 .. Len(values.a) : values.a[i] \notin s.valueMap
    THEN LeptonError("notInEnum")
    ELSE LeptonEnum(Arr(SelectSeq(s.values, LAMBDA val :
                           \E i \in 1 .. Len(values.a) : values.a[i] = val)))

\* LeptonEnum.extract(values), values an array: the new node is made of the array given
extract(s, values) ==
    IF \E i \in 1 .. Len(values.a) : values.a[i] \notin s.valueMap
    THEN LeptonError("notInEnum")
    ELSE IF Len(values.a) = 0 THEN LeptonError("noValues")
    ELSE LeptonEnum(values)

(***************************************************************************)
(* NativeEnum: the values of the named keys of an object                   *)
(***************************************************************************)
\* Number(s) of a string made of white space, an optional sign and decimal digits:
\* the white space around is dropped, and what is left is read as 0 when empty, as
\* the integer when it is one, as NaN otherwise
ToNumber(u) ==
    LET RECURSIVE Decimal(_, _)
        Decimal(ds, acc) ==
            IF ds = <<>> THEN acc ELSE Decimal(Tail(ds), acc * 10 + (Head(ds) - 48))
        inside == {i \in 1 .. Len(u) : u[i] \notin {9, 10, 13, 32}}
        first == CHOOSE i \in inside : \A j \in inside : i <= j
        last == CHOOSE i \in inside : \A j \in inside : j <= i
        t == SubSeq(u, first, last)
        signed == Head(t) \in {43, 45}
        ds == IF signed THEN Tail(t) ELSE t
    IN IF inside = {} THEN I(0)
       ELSE IF ds = <<>> \/ \E i \in 1 .. Len(ds) : ds[i] \notin 48 .. 57 THEN NaN
       ELSE IF Head(t) = 45 THEN NumNeg(I(Decimal(ds, 0)))
       ELSE I(Decimal(ds, 0))

\* LeptonNativeEnum.create and the constructor: the keys that are not numbers, and
\* the kind, that of the value of the first of them
LeptonNativeEnum(enumObject) ==
    LET enumKeys == SelectSeq(Keys(enumObject), LAMBDA key : ~IsIndexKey(key))
    IN IF Len(enumKeys) = 0 THEN LeptonError("noKeys")
       ELSE Ok([k |-> "nativeEnum", enumObject |-> enumObject, enumKeys |-> enumKeys,
                isNumericEnum |->
                    \E j \in 1 .. Len(enumObject) :
                       /\ enumObject[j].key = enumKeys[1]
                       /\ typeof(enumObject[j].val) = "number"])

\* LeptonNativeEnum.parse
NativeEnum_parse(s, v) ==
    LET converted == IF s.isNumericEnum /\ typeof(v) = "string" /\ ToNumber(v.s) # NaN
                     THEN ToNumber(v.s) ELSE v
    IN IF \E i \in 1 .. Len(s.enumKeys) :
             \E j \in 1 .. Len(s.enumObject) :
                /\ s.enumObject[j].key = s.enumKeys[i]
                /\ s.enumObject[j].val = converted
       THEN Ok(converted)
       ELSE LeptonError("invalid")

\* Object.values(this.enumObject).filter((val) =>
\*     (typeof val === "string") === !this.isNumericEnum || typeof val === "number")
validValues(s) ==
    LET kept == SelectSeq(s.enumObject, LAMBDA e :
                    ((typeof(e.val) = "string") = ~s.isNumericEnum)
                    \/ typeof(e.val) = "number")
    IN [i \in 1 .. Len(kept) |-> kept[i].val]

\* LeptonNativeEnum.encode: the index of the value given, not of the one parse returns
NativeEnum_encode(s, v) ==
    LET c == NativeEnum_parse(s, v)
        valueIndex == indexOf(validValues(s), v)
    IN IF ~c.ok THEN c
       ELSE IF valueIndex = -1 THEN LeptonError("couldNotEncode")
       ELSE Ok(padStart(toString16(I(valueIndex)), 2))

\* LeptonNativeEnum._rawDecode
NativeEnum_rawDecode(s, bytes) ==
    IF Len(bytes) < 2 THEN LeptonError("insufficient")
    ELSE LET index == parseInt16(slice(bytes, 0, 2))
         IN IF isInteger(index) /\ ~NumLt(index, I(Len(validValues(s))))
            THEN LeptonError("index")
            ELSE OkRest(ElementAt(validValues(s), index), sliceFrom(bytes, 2))

(***************************************************************************)
(* The schema node contract: parse (validate), encode, _rawDecode, decode  *)
(***************************************************************************)
parse(s, v) ==
    IF "k" \notin DOMAIN s THEN NativeError("TypeError")
    ELSE CASE s.k = "sint" -> SignedInt_parse(s, v)
           [] s.k = "uint" -> UnsignedInt_parse(s, v)
           [] s.k = "bits" -> Bits_parse(s, v)
           [] s.k = "boolean" -> Boolean_parse(v)
           [] s.k = "bigint" -> BigInt_parse(v)
           [] s.k = "string" -> String_parse(v)
           [] s.k = "optional" -> Optional_parse(s, v)
           [] s.k = "nullable" -> Nullable_parse(s, v)
           [] s.k = "array" -> Array_parse(s, v)
           [] s.k = "object" -> Object_parse(s, v)
           [] s.k = "enum" -> Enum_parse(s, v)
           [] s.k = "nativeEnum" -> NativeEnum_parse(s, v)

encode(s, v) ==
    IF "k" \notin DOMAIN s THEN NativeError("TypeError")
    ELSE CASE s.k = "sint" -> SignedInt_encode(s, v)
           [] s.k = "uint" -> UnsignedInt_encode(s, v)
           [] s.k = "bits" -> Bits_encode(s, v)
           [] s.k = "boolean" -> Boolean_encode(v)
           [] s.k = "bigint" -> BigInt_encode(v)
           [] s.k = "string" -> String_encode(v)
           [] s.k = "optional" -> Optional_encode(s, v)
           [] s.k = "nullable" -> Nullable_encode(s, v)
           [] s.k = "array" -> Array_encode(s, v)
           [] s.k = "object" -> Object_encode(s, v)
           [] s.k = "enum" -> Enum_encode(s, v)
           [] s.k = "nativeEnum" -> NativeEnum_encode(s, v)

rawDecode(s, bytes) ==
    IF "k" \notin DOMAIN s THEN NativeError("TypeError")
    ELSE CASE s.k = "sint" -> SignedInt_rawDecode(s, bytes)
           [] s.k = "uint" -> UnsignedInt_rawDecode(s, bytes)
           [] s.k = "bits" -> Bits_rawDecode(s, bytes)
           [] s.k = "boolean" -> Boolean_rawDecode(bytes)
           [] s.k = "bigint" -> BigInt_rawDecode(bytes)
           [] s.k = "string" -> String_rawDecode(bytes)
           [] s.k = "optional" -> Optional_rawDecode(s, bytes)
           [] s.k = "nullable" -> Nullable_rawDecode(s, bytes)
           [] s.k = "array" -> Array_rawDecode(s, bytes)
           [] s.k = "object" -> Object_rawDecode(s, bytes)
           [] s.k = "enum" -> Enum_rawDecode(s, bytes)
           [] s.k = "nativeEnum" -> NativeEnum_rawDecode(s, bytes)

\* LeptonType.decode: _rawDecode, then parse of the raw value; the remainder is dropped
\* a decode that returns the raw value as it is
decode_withoutParse(s, bytes) ==
    LET r == rawDecode(s, bytes)
    IN IF ~r.ok THEN r ELSE Ok(r.val)

decode(s, bytes) ==
    LET r == rawDecode(s, bytes)
    IN IF ~r.ok THEN r ELSE parse(s, r.val)

(***************************************************************************)
(* The inputs the model draws                                              *)
(***************************************************************************)
MaxPow == 33
MaxTrail == 1
MaxWire == 2
MaxVarInt == 300
MaxBits == 33

None == [none |-> TRUE]

\* the values given to a primitive node: the integers around every power of two and
\* around the negative range ends, 0.5, NaN, and values of the other types
Atoms ==
    {NumAdd(Pow2(k), I(d)) : k \in 0 .. MaxPow, d \in {-1, 0}}
    \cup {NumAdd(NumNeg(Pow2(k)), I(d)) : k \in {0, 7, 15, 31}, d \in {-1, 0}}
    \cup {Undefined, Null, Bool(TRUE), Bool(FALSE), [t |-> "number", half |-> 0], NaN,
          Str(<<>>), Str(<<65>>), Str(<<49>>), Str(<<233, 8364>>), Str(<<55357, 56832>>),
          Str(<<55357>>), Str(<<65279, 65>>),
          Big(-1), Big(0), Big(1), Big(127), Big(128), Big(300), Big(16384),
          Arr(<<>>), Obj(<<>>)}

RECURSIVE SeqsUpTo(_, _)
SeqsUpTo(S, n) ==
    IF n = 0 THEN {<<>>}
    ELSE LET shorter == SeqsUpTo(S, n - 1)
         IN shorter \cup {Append(q, x) : q \in {r \in shorter : Len(r) = n - 1}, x \in S}

\* the bytes that follow an encoding
Trailing == SeqsUpTo({0, 1, 128, 255}, MaxTrail)

\* the bytes given to a primitive node to decode: short ones, and four-byte ones
\* for the nodes that read four bytes
WireInputs ==
    SeqsUpTo({0, 1, 2, 127, 128, 129, 255}, MaxWire)
    \cup {<<255, 255, 255, 255>>, <<127, 255, 255, 255>>, <<128, 0, 0, 0>>, <<0, 0, 1, 0>>}

VarIntInputs == (-2 .. MaxVarInt) \cup {16383, 16384, 2097151, 2097152}

\* before any call: nothing constructed, nothing given, nothing returned
Init ==
    /\ pc = "idle"
    /\ schema = None /\ input = None /\ parsed = None /\ encoded = None
    /\ trail = <<>> /\ wire = <<>> /\ raw = None /\ decoded = None
    /\ base = None /\ arg = None /\ heap = <<>>

(***************************************************************************)
(* The VarInt functions called on their own                                *)
(***************************************************************************)
\* encodeVarInt(n)
EncodeVarInt ==
    /\ pc = "idle"
    /\ \E n \in VarIntInputs :
          /\ input' = Big(n)
          /\ encoded' = Ok(encodeVarInt(n))
    /\ pc' = "vencoded"
    /\ UNCHANGED <<schema, parsed, trail, wire, raw, decoded, base, arg, heap>>

\* decodeVarInt(encodeVarInt(n) ++ t)
DecodeVarInt ==
    /\ pc = "vencoded"
    /\ \E t \in Trailing :
          /\ trail' = Hex(t)
          /\ wire' = encoded.val \o Hex(t)
    /\ raw' = decodeVarInt(wire')
    /\ pc' = "vdecoded"
    /\ UNCHANGED <<schema, input, parsed, encoded, decoded, base, arg, heap>>

\* decodeVarInt of any bytes
DecodeVarIntBytes ==
    /\ pc = "idle"
    /\ \E b \in WireInputs : wire' = Hex(b)
    /\ raw' = decodeVarInt(wire')
    /\ pc' = "vbytes"
    /\ UNCHANGED <<schema, input, parsed, encoded, trail, decoded, base, arg, heap>>

NextVarInt == EncodeVarInt \/ DecodeVarInt \/ DecodeVarIntBytes

SpecVarInt == Init /\ [][NextVarInt]_vars

(***************************************************************************)
(* A client of one schema node: construct it, validate a value, encode the *)
(* value, decode what was encoded (followed by trailing bytes) or decode   *)
(* arbitrary bytes.                                                        *)
(***************************************************************************)
\* a factory call that cannot throw: int8(), uint8(), boolean(), object({...}), ...
New(S) ==
    /\ pc = "idle"
    /\ \E s \in S : schema' = s
    /\ pc' = "ready"
    /\ UNCHANGED <<input, parsed, encoded, trail, wire, raw, decoded, base, arg, heap>>

\* bits(width): the constructor throws for a width outside 1..32
NewBits ==
    /\ pc = "idle"
    /\ \E bitWidth \in 0 .. MaxBits :
          LET r == LeptonBits(bitWidth)
          IN /\ arg' = [bitWidth |-> bitWidth]
             /\ schema' = IF r.ok THEN r.val ELSE r
             /\ pc' = IF r.ok THEN "ready" ELSE "threw"
    /\ UNCHANGED <<input, parsed, encoded, trail, wire, raw, decoded, base, heap>>

\* schema.parse(v)
Validate(V) ==
    /\ pc = "ready"
    /\ \E v \in V :
          /\ input' = v
          /\ parsed' = parse(schema, v)
    /\ pc' = "validated"
    /\ UNCHANGED <<schema, encoded, trail, wire, raw, decoded, base, arg, heap>>

\* schema.encode(v), of the value just given to parse
Encode ==
    /\ pc = "validated"
    /\ encoded' = encode(schema, input)
    /\ pc' = "encoded"
    /\ UNCHANGED <<schema, input, parsed, trail, wire, raw, decoded, base, arg, heap>>

\* schema._rawDecode(schema.encode(v) ++ t)
RawDecode(T) ==
    /\ pc = "encoded"
    /\ encoded.ok
    /\ \E t \in T :
          /\ trail' = Hex(t)
          /\ wire' = encoded.val \o Hex(t)
    /\ raw' = rawDecode(schema, wire')
    /\ pc' = "rawdecoded"
    /\ UNCHANGED <<schema, input, parsed, encoded, decoded, base, arg, heap>>

\* schema._rawDecode(bytes), of any bytes
RawDecodeBytes(W) ==
    /\ pc = "ready"
    /\ \E b \in W : wire' = Hex(b)
    /\ raw' = rawDecode(schema, wire')
    /\ pc' = "bytesraw"
    /\ UNCHANGED <<schema, input, parsed, encoded, trail, decoded, base, arg, heap>>

\* schema.decode(bytes), of the same bytes
Decode ==
    /\ pc \in {"rawdecoded", "bytesraw"}
    /\ decoded' = decode(schema, wire)
    /\ pc' = IF pc = "rawdecoded" THEN "decoded" ELSE "bytesdecoded"
    /\ UNCHANGED <<schema, input, parsed, encoded, trail, wire, raw, base, arg, heap>>

(***************************************************************************)
(* The primitive nodes                                                     *)
(***************************************************************************)
\* int8(), int16(), int32(), uint8(), uint16(), uint32(), boolean(), string(), bigint()
PrimSchemas ==
    {LeptonSignedInt(w) : w \in {1, 2, 4}} \cup {LeptonUnsignedInt(w) : w \in {1, 2, 4}}
    \cup {LeptonBoolean, LeptonString, LeptonBigInt}

NextPrim ==
    \/ New(PrimSchemas)
    \/ NewBits
    \/ Validate(Atoms)
    \/ Encode
    \/ RawDecode(Trailing)
    \/ RawDecodeBytes(WireInputs)
    \/ Decode

SpecPrim == Init /\ [][NextPrim]_vars

(***************************************************************************)
(* Object nodes: declared by an object literal, made strict, validated,   *)
(* encoded and decoded, or narrowed by pick and omit                       *)
(***************************************************************************)
MaxFields == 2
MaxPick == 2

FieldNames == {"a", "b", "1", "toString"}

\* a nested object node, used as a field schema
Inner == LeptonObject(ObjectLiteral(<<Prop("x", LeptonUnsignedInt(1))>>), FALSE)

Distinct(q) == \A i, j \in 1 .. Len(q) : i # j => q[i] # q[j]

\* the object literals given to object(): distinct names, in the order written
Decls ==
    LET props == {Prop(key, sch) : key \in FieldNames,
                                   sch \in {LeptonUnsignedInt(1),
                                            LeptonOptional(LeptonUnsignedInt(1))}}
                 \cup {Prop("a", Inner)}
    IN {d \in SeqsUpTo(props, MaxFields) : Distinct(Keys(d))}

\* the values tried for a field of the given schema
FieldInputs(sch) ==
    CASE sch.k = "object" -> {Obj(<<>>), Obj([key \in {"x"} |-> I(1)]), I(1)}
      [] sch.k = "optional" -> {I(1), Undefined, Str(<<120>>)}
      [] OTHER -> {I(1), I(2), Str(<<120>>)}

WithKey(f, key, v) == [x \in DOMAIN f \cup {key} |-> IF x = key THEN v ELSE f[x]]

\* every record over the given properties, each one left out or given one of its values
RECURSIVE RecordsOver(_)
RecordsOver(props) ==
    IF props = <<>> THEN {<<>>}
    ELSE LET rest == RecordsOver(Tail(props))
         IN rest \cup {WithKey(f, Head(props).key, v) : f \in rest, v \in Head(props).val}

\* the inputs given to parse: objects over the declared names and over two further
\* names, and values that are not plain objects
ObjectInputs(s) ==
    LET declared == [i \in 1 .. Len(s.shape) |->
                        Prop(s.shape[i].key, FieldInputs(s.shape[i].val))]
        extra == SelectSeq(<<Prop("zz", {I(1)}), Prop("toString", {I(1)})>>,
                           LAMBDA e : ~HasOwn(s.shape, e.key))
    IN {Obj(f) : f \in RecordsOver(declared \o extra)}
       \cup {Undefined, Null, I(1), Str(<<120>>), Arr(<<I(1), I(2)>>)}

PickLists == SeqsUpTo(FieldNames \cup {"zz"}, MaxPick)

\* object({...})
NewObject ==
    /\ pc = "idle"
    /\ \E decl \in Decls :
          /\ arg' = [decl |-> decl]
          /\ schema' = LeptonObject(ObjectLiteral(decl), FALSE)
    /\ pc' = "ready"
    /\ UNCHANGED <<input, parsed, encoded, trail, wire, raw, decoded, base, heap>>

\* schema.strict()
Strict ==
    /\ pc = "ready"
    /\ ~schema.isStrict
    /\ schema' = strict(schema)
    /\ UNCHANGED <<pc, input, parsed, encoded, trail, wire, raw, decoded, base, arg, heap>>

\* schema.pick(keys)
Pick ==
    /\ pc = "ready"
    /\ \E keys \in PickLists :
          /\ arg' = [keys |-> keys]
          /\ schema' = pick(schema, keys)
    /\ base' = schema
    /\ pc' = "picked"
    /\ UNCHANGED <<input, parsed, encoded, trail, wire, raw, decoded, heap>>

\* schema.omit(keys)
Omit ==
    /\ pc = "ready"
    /\ \E keys \in PickLists :
          /\ arg' = [keys |-> keys]
          /\ schema' = omit(schema, keys)
    /\ base' = schema
    /\ pc' = "omitted"
    /\ UNCHANGED <<input, parsed, encoded, trail, wire, raw, decoded, heap>>

NextObject ==
    \/ NewObject
    \/ Strict
    \/ Validate(ObjectInputs(schema))
    \/ Encode
    \/ RawDecode({<<>>, <<255>>})
    \/ RawDecodeBytes(SeqsUpTo({0, 1, 2}, MaxFields + 1))
    \/ Decode
    \/ Pick
    \/ Omit

SpecObject == Init /\ [][NextObject]_vars

(***************************************************************************)
(* Every kind of node, wrappers over wrappers and objects included         *)
(***************************************************************************)
MaxArrayLen == 2

\* the nodes of the general client: the primitives, one and two wrappers over some
\* of them, and the objects
\*   user:   object({id: uint8(), name: string().optional()})
\*   nested: object({pos: object({x: uint8()}), tags: array(uint8()),
\*                   big: bigint().nullable()}).strict()
Schemas ==
    LET Wrappers(S) ==
            {LeptonOptional(s) : s \in S} \cup {LeptonNullable(s) : s \in S}
            \cup {LeptonArray(s) : s \in S}
        user ==
            LeptonObject(ObjectLiteral(<<Prop("id", LeptonUnsignedInt(1)),
                                         Prop("name", LeptonOptional(LeptonString))>>), FALSE)
        nested ==
            strict(LeptonObject(
                ObjectLiteral(<<Prop("pos", Inner),
                                Prop("tags", LeptonArray(LeptonUnsignedInt(1))),
                                Prop("big", LeptonNullable(LeptonBigInt))>>), FALSE))
        catalog == LeptonObject(ObjectLiteral(<<Prop("items", LeptonArray(Inner))>>), FALSE)
    IN PrimSchemas
       \cup Wrappers({LeptonUnsignedInt(1), LeptonBoolean, LeptonString, LeptonBigInt, Inner})
       \cup Wrappers(Wrappers({LeptonUnsignedInt(1), LeptonString}))
       \cup {Inner, user, nested, strict(user), catalog}

\* the values tried as an element or a field of the given schema
RECURSIVE Values(_)
Values(s) ==
    CASE s.k \in {"optional", "nullable"} -> Values(s.wrappedType) \cup {Undefined, Null}
      [] s.k = "array" ->
            {Arr(<<>>), I(1)} \cup {Arr(<<v>>) : v \in Values(s.elementType)}
      [] s.k = "object" ->
            {Obj(f) : f \in RecordsOver([i \in 1 .. Len(s.shape) |->
                                            Prop(s.shape[i].key, {I(1)})])}
            \cup {I(1)}
      [] s.k = "string" -> {Str(<<>>), Str(<<65>>), Str(<<65279, 65>>), I(1)}
      [] s.k = "bigint" -> {Big(-1), Big(1), Big(300), I(1)}
      [] s.k = "boolean" -> {Bool(TRUE), Bool(FALSE), I(1)}
      [] OTHER -> {I(1), I(255), I(256), Str(<<65>>)}

\* the values given to parse and to encode of the given schema
RECURSIVE Inputs(_)
Inputs(s) ==
    CASE s.k \in {"optional", "nullable"} -> Inputs(s.wrappedType) \cup {Undefined, Null}
      [] s.k = "array" ->
            {Arr(q) : q \in SeqsUpTo(Values(s.elementType), MaxArrayLen)}
            \cup {Undefined, Null, I(1), Str(<<65, 66>>), Obj(<<>>)}
      [] s.k = "object" ->
            {Obj(f) : f \in RecordsOver(
                        [i \in 1 .. Len(s.shape) |->
                            Prop(s.shape[i].key, Values(s.shape[i].val))]
                        \o <<Prop("zz", {I(1)})>>)}
            \cup {Undefined, Null, I(1), Arr(<<I(1)>>)}
      [] OTHER -> Atoms

\* the bytes given to decode: short ones without a continuation bit, and a few with
\* one, none of which announces more than a few elements
Wires ==
    SeqsUpTo({0, 1, 2, 3}, MaxWire)
    \cup {<<128, 0, 0, 0>>, <<129, 0, 2>>, <<2, 1, 65, 0>>, <<1, 3, 239, 187, 191>>,
          <<1, 1, 255>>}

Next ==
    \/ New(Schemas)
    \/ NewBits
    \/ Validate(Inputs(schema))
    \/ Encode
    \/ RawDecode(Trailing)
    \/ RawDecodeBytes(Wires)
    \/ Decode

Spec == Init /\ [][Next]_vars

(***************************************************************************)
(* Derivations: the nodes a client holds, and the nodes it derives of them *)
(***************************************************************************)
MaxHeap == 3

\* the nodes made by the factories: object({a, b?}), object({b, 2}).strict(),
\* enum(["a", "b", "c"])
Roots ==
    {LeptonObject(ObjectLiteral(<<Prop("a", LeptonUnsignedInt(1)),
                                  Prop("b", LeptonOptional(LeptonUnsignedInt(1)))>>), FALSE),
     strict(LeptonObject(ObjectLiteral(<<Prop("b", LeptonUnsignedInt(1)),
                                         Prop("2", LeptonBoolean)>>), FALSE)),
     LeptonEnum(Arr(<<Str(<<97>>), Str(<<98>>), Str(<<99>>)>>)).val}

\* the object literals given to extend
ExtendShapes ==
    {<<Prop("a", LeptonString)>>, <<Prop("c", LeptonString)>>,
     <<Prop("1", LeptonString)>>, <<Prop("c", LeptonBoolean), Prop("b", LeptonString)>>,
     <<Prop("2", LeptonString)>>, <<Prop("zz", LeptonBoolean), Prop("0", LeptonString)>>}

\* the key lists given to pick and to omit, and the value lists given to exclude and
\* to extract
KeyLists == {<<"b">>, <<"1", "a">>}
ValueLists ==
    {Arr(<<Str(<<98>>)>>), Arr(<<Str(<<99>>), Str(<<97>>)>>), Arr(<<Str(<<122>>)>>)}

\* what a derivation does to the objects there are: the node it returns is a new
\* object, and no property of an object there was is assigned to
Alloc_inPlace(h, r, res) == IF res.ok THEN [h EXCEPT ![r] = res.val] ELSE h
Alloc(h, r, res) == IF res.ok THEN Append(h, res.val) ELSE h

\* a call of a method of heap[r] that returns a new node or throws
Derive(r, a, res) ==
    /\ pc \in {"ready", "heap"}
    /\ Len(heap) < MaxHeap
    /\ heap' = Alloc(heap, r, res)
    /\ base' = heap[r]
    /\ schema' = res
    /\ arg' = a
    /\ pc' = "heap"
    /\ UNCHANGED <<input, parsed, encoded, trail, wire, raw, decoded>>

\* object({...}), enum([...])
Create ==
    /\ pc \in {"idle", "heap"}
    /\ Len(heap) < MaxHeap
    /\ \E node \in Roots : heap' = Append(heap, node)
    /\ pc' = "heap"
    /\ UNCHANGED <<schema, input, parsed, encoded, trail, wire, raw, decoded, base, arg>>

ObjectNodes == {r \in 1 .. Len(heap) : heap[r].k = "object"}
EnumNodes == {r \in 1 .. Len(heap) : heap[r].k = "enum"}

StrictNode ==
    \E r \in ObjectNodes : Derive(r, [op |-> "strict", r |-> r], Ok(strict(heap[r])))

Extend ==
    \E r \in ObjectNodes, shape \in ExtendShapes :
       Derive(r, [op |-> "extend", r |-> r, shape |-> shape],
              Ok(extend(heap[r], ObjectLiteral(shape))))

Merge ==
    \E r \in ObjectNodes, other \in ObjectNodes :
       Derive(r, [op |-> "merge", r |-> r, other |-> other],
              Ok(merge(heap[r], heap[other])))

PickNode ==
    \E r \in ObjectNodes, keys \in KeyLists :
       Derive(r, [op |-> "pick", r |-> r, keys |-> keys], Ok(pick(heap[r], keys)))

OmitNode ==
    \E r \in ObjectNodes, keys \in KeyLists :
       Derive(r, [op |-> "omit", r |-> r, keys |-> keys], Ok(omit(heap[r], keys)))

Partial ==
    \E r \in ObjectNodes : Derive(r, [op |-> "partial", r |-> r], partial(heap[r]))

Exclude(V) ==
    \E r \in EnumNodes, values \in V :
       Derive(r, [op |-> "exclude", r |-> r, values |-> values], exclude(heap[r], values))

Extract(V) ==
    \E r \in EnumNodes, values \in V :
       Derive(r, [op |-> "extract", r |-> r, values |-> values], extract(heap[r], values))

\* parse, encode and decode of one node among those there are; none of them assigns
\* to a property of a node
Call ==
    /\ pc = "heap"
    /\ \E r \in 1 .. Len(heap) :
          \E v \in IF heap[r].k = "enum" THEN {Str(<<98>>)}
                   ELSE {Obj([key \in {"a", "b"} |-> I(1)])} :
             /\ arg' = [op |-> "call", r |-> r]
             /\ input' = v
             /\ parsed' = parse(heap[r], v)
             /\ encoded' = encode(heap[r], v)
             /\ wire' = IF encoded'.ok THEN encoded'.val ELSE <<0, 1>>
             /\ decoded' = decode(heap[r], wire')
    /\ pc' = "called"
    /\ UNCHANGED <<schema, trail, raw, base, heap>>

NextDerive ==
    \/ Create
    \/ StrictNode
    \/ Extend
    \/ Merge
    \/ PickNode
    \/ OmitNode
    \/ Partial
    \/ Exclude(ValueLists)
    \/ Extract(ValueLists)
    \/ Call

SpecDerive == Init /\ [][NextDerive]_vars

(***************************************************************************)
(* Enum nodes: construction, derivation and the calls made on them         *)
(***************************************************************************)
ManyValues == 257

\* an array of n distinct one-character strings
Letters(n) == Arr([i \in 1 .. n |-> Str(<<96 + i>>)])

\* the values given to enum(): no list, lists that are not arrays, arrays with an
\* element that is not a string or with a value twice, and lists of strings, among
\* them strings that are what String() makes of a value that is not a string; the
\* enum of ManyValues values is made apart, and no enum is derived of it
EnumArgs ==
    {Undefined, Null, I(1), Str(<<97>>), Arr(<<>>), Arr(<<I(1)>>),
     Arr(<<Str(<<97>>), I(1)>>), Arr(<<Str(<<97>>), Str(<<97>>)>>),
     Arr(<<Str(<<97>>), Str(<<98>>), Str(<<97>>)>>),
     Letters(1), Letters(3), Letters(4), Arr(<<Str(<<99>>), Str(<<97>>)>>),
     Arr(<<Str(<<49, 50, 51>>), Str(<<97>>)>>),
     Arr(<<Str(<<97, 44, 98>>), Str(<<117, 110, 100, 101, 102, 105, 110, 101, 100>>)>>)}

\* the lists given to exclude and to extract
EnumLists ==
    {Arr(<<>>), Arr(<<Str(<<98>>)>>), Arr(<<Str(<<99>>), Str(<<97>>)>>),
     Arr(<<Str(<<97>>), Str(<<99>>)>>), Arr(<<Str(<<97>>), Str(<<98>>), Str(<<99>>)>>),
     Arr(<<Str(<<97>>), Str(<<97>>)>>), Arr(<<Str(<<122>>)>>),
     Arr(<<Str(<<99>>)>>), Arr(<<Str(<<98>>), Str(<<97>>)>>),
     Arr(<<Str(<<99>>), Str(<<98>>), Str(<<97>>)>>), Arr(<<Str(<<97>>), Str(<<122>>)>>)}

\* the values given to parse and to encode of an enum: its first, second and last
\* values, and values that are not among them
EnumInputs(s) ==
    IF s.k = "nativeEnum"
    THEN {I(0), I(1), I(2), I(3), I(5), Undefined, Null}
         \cup {Str(u) : u \in {<<>>, <<48>>, <<49>>, <<50>>, <<53>>, <<32, 49>>, <<48, 49>>,
                                <<45, 49>>, <<65>>, <<66>>, <<97>>, <<98>>, <<99>>, <<122>>}}
    ELSE {s.values[i] : i \in {1, Len(s.values)} \cup (DOMAIN s.values \cap {2})}
         \cup {Str(<<122>>), I(123), I(1), Undefined, Null, Bool(TRUE),
               Arr(<<Str(<<97>>)>>), Arr(<<Str(<<97>>), Str(<<98>>)>>)}

\* the objects given to nativeEnum(): what TypeScript makes of
\*   enum { A, B, C }    enum { A = 1, B = 3 }    enum { A = "a", B = "b", C = "c" }
\*   enum { A = 0, B = "b" }    enum { A = "a", B = 1, C = "c" }
\* (a member with a number has its name under that number as well), the plain object
\* {A: "a", B: 1, C: "c"}, an object of numeric keys only and the empty object
EnumObjects ==
    {<<Prop("0", Str(<<65>>)), Prop("A", I(0)), Prop("1", Str(<<66>>)), Prop("B", I(1)),
       Prop("2", Str(<<67>>)), Prop("C", I(2))>>,
     <<Prop("1", Str(<<65>>)), Prop("A", I(1)), Prop("3", Str(<<66>>)), Prop("B", I(3))>>,
     <<Prop("A", Str(<<97>>)), Prop("B", Str(<<98>>)), Prop("C", Str(<<99>>))>>,
     <<Prop("0", Str(<<65>>)), Prop("A", I(0)), Prop("B", Str(<<98>>))>>,
     <<Prop("A", Str(<<97>>)), Prop("1", Str(<<66>>)), Prop("B", I(1)),
       Prop("C", Str(<<99>>))>>,
     <<Prop("A", Str(<<97>>)), Prop("B", I(1)), Prop("C", Str(<<99>>))>>,
     <<Prop("0", Str(<<65>>))>>,
     <<>>}

\* enum(values)
NewEnum ==
    /\ pc = "idle"
    /\ \E values \in EnumArgs :
          /\ arg' = [op |-> "enum", values |-> values]
          /\ schema' = IF LeptonEnum(values).ok THEN LeptonEnum(values).val
                       ELSE LeptonEnum(values)
          /\ heap' = Alloc(heap, 0, LeptonEnum(values))
          /\ pc' = IF LeptonEnum(values).ok THEN "ready" ELSE "threw"
    /\ UNCHANGED <<input, parsed, encoded, trail, wire, raw, decoded, base>>

\* nativeEnum(enumObject)
NewNativeEnum ==
    /\ pc = "idle"
    /\ \E decl \in EnumObjects :
          LET res == LeptonNativeEnum(ObjectLiteral(decl))
          IN /\ arg' = [op |-> "nativeEnum", decl |-> decl]
             /\ schema' = IF res.ok THEN res.val ELSE res
             /\ heap' = Alloc(heap, 0, res)
             /\ pc' = IF res.ok THEN "ready" ELSE "threw"
    /\ UNCHANGED <<input, parsed, encoded, trail, wire, raw, decoded, base>>

NextEnum ==
    \/ New({LeptonEnum(Letters(ManyValues)).val})
    \/ NewEnum
    \/ NewNativeEnum
    \/ Exclude(EnumLists)
    \/ Extract(EnumLists)
    \/ Validate(EnumInputs(schema))
    \/ Encode
    \/ RawDecode({<<>>, <<255>>})
    \/ RawDecodeBytes(SeqsUpTo({0, 1, 2, 3, 255}, MaxWire))
    \/ Decode

SpecEnum == Init /\ [][NextEnum]_vars

(***************************************************************************)
(* Claims                                                                  *)
(***************************************************************************)
\* a value without the properties whose value is undefined, which value equality of
\* objects does not tell from absent ones
RECURSIVE Defined(_)
Defined(v) ==
    CASE v.t = "object" ->
            Obj([key \in {x \in DOMAIN v.f : v.f[x] # Undefined} |-> Defined(v.f[key])])
      [] v.t = "array" -> Arr([i \in 1 .. Len(v.a) |-> Defined(v.a[i])])
      [] OTHER -> v

\* C1: for every schema S built from the fixed-width integers, BitInt, VarInt,
\* BigVarInt, Boolean, String, Enum, NativeEnum, Array, Object, Optional and Nullable,
\* and every value v that S.validate accepts, S.encode(v) succeeds and
\* S.decode(S.encode(v)) returns a value equal to v (to what validate returns for v,
\* under the value equality of its type).
C1_RoundTrip ==
    /\ (pc = "encoded" /\ parsed.ok) => encoded.ok
    /\ (pc = "decoded" /\ trail = <<>> /\ parsed.ok) =>
          (decoded.ok /\ Defined(decoded.val) = Defined(parsed.val))

\* C2: decode is decodeRaw followed by validate on the raw result: if S.decode(b)
\* returns v then S.validate(v) also succeeds and returns v, and S.decode(b) fails
\* whenever validate rejects the raw decoded value (and whenever decodeRaw fails).
C2_DecodeValidates ==
    (pc \in {"decoded", "bytesdecoded"}) =>
        /\ raw.ok => decoded = parse(schema, raw.val)
        /\ ~raw.ok => ~decoded.ok
        /\ decoded.ok => parse(schema, decoded.val) = decoded

\* C2 witness: the four bytes 80 00 00 00 are read by a 32-bit BitInt as a negative
\* number, validate refuses it, and decode has failed with its range error
C2_Witness ==
    /\ pc = "bytesdecoded"
    /\ schema.k = "bits" /\ schema.bitWidth = 32
    /\ wire = Hex(<<128, 0, 0, 0>>)
    /\ raw.ok /\ NumLt(raw.val, I(0))
    /\ ~parse(schema, raw.val).ok
    /\ ~decoded.ok /\ decoded.kind = "range"

InSignedRange(width, v) ==
    ~NumLt(v, NumNeg(Pow2(8 * width - 1))) /\ NumLt(v, Pow2(8 * width - 1))

InUnsignedRange(width, v) == ~NumLt(v, I(0)) /\ NumLt(v, Pow2(8 * width))

\* what the two range claims say of one call: it succeeds exactly in range, it
\* returns what the claim says it returns, and it fails with a range error
ExactlyInRange(result, inRange, expected) ==
    /\ result.ok = inRange
    /\ inRange => result.val = expected
    /\ ~inRange => result.kind = "range"

\* C3: for byte width w in {1, 2, 4}, SignedInt(w).validate and .encode succeed
\* exactly for the integers in [-2^(8w-1), 2^(8w-1) - 1], UnsignedInt(w).validate and
\* .encode exactly for the integers in [0, 2^(8w) - 1]; every other integer fails with
\* a range error.
C3_FixedWidthRange ==
    (pc \in {"validated", "encoded"} /\ schema.k \in {"sint", "uint"} /\ isInteger(input)) =>
        LET inRange == IF schema.k = "sint" THEN InSignedRange(schema.width, input)
                       ELSE InUnsignedRange(schema.width, input)
        IN /\ ExactlyInRange(parsed, inRange, input)
           /\ pc = "encoded" => (encoded.ok = inRange /\ (~inRange => encoded.kind = "range"))

\* C3 witness: int32 has refused 2^31 in validate and in encode, with a range error
C3_Witness ==
    /\ pc = "encoded"
    /\ schema = LeptonSignedInt(4)
    /\ input = Pow2(31)
    /\ ~parsed.ok /\ ~encoded.ok /\ encoded.kind = "range"

InBitsRange(bits, v) == ~NumLt(v, I(0)) /\ NumLt(v, Pow2(bits))

\* C4: constructing BitInt(bits) succeeds exactly for bit widths in [1, 32], and for
\* every such width (31 and 32 included) validate and encode accept exactly the
\* integers in [0, 2^bits - 1] and reject every other integer.
C4_BitIntRange ==
    /\ pc = "threw" => arg.bitWidth \notin 1 .. 32
    /\ (pc = "ready" /\ schema.k = "bits") => arg.bitWidth \in 1 .. 32
    /\ (pc \in {"validated", "encoded"} /\ schema.k = "bits" /\ isInteger(input)) =>
          /\ parsed.ok = InBitsRange(schema.bitWidth, input)
          /\ pc = "encoded" => encoded.ok = InBitsRange(schema.bitWidth, input)

\* the continuation bits of a VarInt: set on every byte but the last
RECURSIVE WellFormedVarInt(_)
WellFormedVarInt(str) ==
    /\ Len(str) >= 2
    /\ IF Len(str) = 2 THEN str[1] < 8 ELSE str[1] >= 8 /\ WellFormedVarInt(Tail(Tail(str)))

\* C5: for every non-negative integer n and every trailing byte sequence t,
\* decodeVarInt(encodeVarInt(n) ++ t) returns exactly (n, t); 300 is encoded on two
\* bytes with the continuation bit set on the first (ac 02).
C5_VarIntRoundTrip ==
    /\ (pc = "vdecoded" /\ input.big >= 0) =>
          raw = [val |-> input.big, rest |-> trail]
    /\ (pc \in {"vencoded", "vdecoded"} /\ input.big = 300) =>
          (encoded.val = <<10, 12, 0, 2>> /\ WellFormedVarInt(encoded.val))

\* C5 witness: 300 followed by a trailing byte was decoded to 300, the byte left over
C5_Witness ==
    /\ pc = "vdecoded"
    /\ input = Big(300)
    /\ trail = <<15, 15>>
    /\ raw.val = 300 /\ raw.rest = <<15, 15>>

Magnitude(n) == IF n < 0 THEN -n ELSE n

\* C6: for every value v that BigVarInt.validate accepts (negative ones included),
\* BigVarInt.encode(v) is the VarInt encoding of the magnitude of v: a non-empty byte
\* sequence in which exactly the last byte has its high bit clear, and decoding it
\* consumes exactly those bytes.
C6_BigVarIntWire ==
    (schema = LeptonBigInt /\ pc \in {"encoded", "rawdecoded"} /\ parsed.ok) =>
        /\ encoded.ok
        /\ encoded.val = encodeVarInt(Magnitude(input.big))
        /\ WellFormedVarInt(encoded.val)
        /\ pc = "rawdecoded" => (raw.ok /\ raw.rest = trail)

DeclaredKeys(s) == {s.shape[i].key : i \in 1 .. Len(s.shape)}

Range(q) == {q[i] : i \in 1 .. Len(q)}

Pos(q, x) == CHOOSE i \in 1 .. Len(q) : q[i] = x

IsObjectInput(v) == v.t \in {"object", "array"}

\* the declared field at which validation stops: the first one that is not in the input
\* and not Optional, or in the input and refused by its schema; 0 when there is none
FieldProblem(s, v, i) ==
    IF HasProp(v, s.shape[i].key)
    THEN ~parse(s.shape[i].val, GetProp(v, s.shape[i].key)).ok
    ELSE s.shape[i].val.k # "optional"

FirstProblem(s, v) ==
    IF \E i \in 1 .. Len(s.shape) : FieldProblem(s, v, i)
    THEN CHOOSE i \in 1 .. Len(s.shape) :
            FieldProblem(s, v, i) /\ \A j \in 1 .. i - 1 : ~FieldProblem(s, v, j)
    ELSE 0

\* C7: for an object schema in strict mode, validate fails with an unknown-field error
\* whenever the input has a key that is not declared in the shape; in non-strict mode
\* the same input is accepted and the returned value contains only the declared keys.
C7_Strictness ==
    (pc = "validated" /\ schema.k = "object" /\ IsObjectInput(input)) =>
        /\ (schema.isStrict /\ OwnKeys(input) \ DeclaredKeys(schema) # {}) =>
              (~parsed.ok /\ parsed.kind = "unknown")
        /\ (~schema.isStrict /\ FirstProblem(schema, input) = 0) => parsed.ok
        /\ (~schema.isStrict /\ parsed.ok) => DOMAIN parsed.val.f \subseteq DeclaredKeys(schema)

\* C8 as stated: Object.validate fails with a missing-field error if and only if some
\* declared field whose schema is not Optional is absent from the input (absent: the
\* in operator does not find it).
C8_MissingIffAbsent ==
    (pc = "validated" /\ schema.k = "object" /\ IsObjectInput(input)) =>
        ((~parsed.ok /\ parsed.kind = "missing" /\ parsed.path = <<>>)
            <=> \E i \in 1 .. Len(schema.shape) :
                   /\ schema.shape[i].val.k # "optional"
                   /\ ~HasProp(input, schema.shape[i].key))

\* C8 amended: Object.validate of an object fails with a missing-field error of its
\* own exactly when no strict-mode unknown key is found and the first declared field,
\* in the order of the shape, that is either not in the input and not Optional, or in
\* the input and refused by its schema, is one that is not in the input ("in" as the
\* in operator tells it, inherited names included).  It succeeds exactly when there is
\* no unknown key and no such field; an Optional field not in the input is left out of
\* the result, and every declared field in the input is validated by its own schema.
C8_RequiredFields ==
    (pc = "validated" /\ schema.k = "object" /\ IsObjectInput(input)) =>
        LET unknown == schema.isStrict /\ \E key \in OwnKeys(input) : ~InShape(schema.shape, key)
            first == FirstProblem(schema, input)
        IN /\ (~parsed.ok /\ parsed.kind = "missing" /\ parsed.path = <<>>)
                 <=> (~unknown /\ first # 0 /\ ~HasProp(input, schema.shape[first].key))
           /\ parsed.ok <=> (~unknown /\ first = 0)
           /\ parsed.ok =>
                 \A i \in 1 .. Len(schema.shape) :
                    LET key == schema.shape[i].key
                    IN IF HasProp(input, key)
                       THEN /\ key \in DOMAIN parsed.val.f
                            /\ Ok(parsed.val.f[key])
                                  = parse(schema.shape[i].val, GetProp(input, key))
                       ELSE key \notin DOMAIN parsed.val.f
           /\ (~unknown /\ first # 0 /\ HasProp(input, schema.shape[first].key)) =>
                 parsed = Rethrow(parse(schema.shape[first].val,
                                        GetProp(input, schema.shape[first].key)),
                                  schema.shape[first].key)

\* C8 witness: a required field is absent, yet validation stopped at an earlier field
\* that is present and invalid, with a type error carrying that field's name
C8_Witness ==
    /\ pc = "validated"
    /\ schema.k = "object"
    /\ Keys(schema.shape) = <<"a", "b">>
    /\ schema.shape[1].val = LeptonOptional(LeptonUnsignedInt(1))
    /\ schema.shape[2].val = LeptonUnsignedInt(1)
    /\ input = Obj([key \in {"a"} |-> Str(<<120>>)])
    /\ ~parsed.ok /\ parsed.kind = "type" /\ parsed.path = <<"a">>

\* the order Object.entries gives the fields of an object literal: names that are
\* array indices first, in ascending numeric order, then the others as written
EntriesBefore(decl, x, y) ==
    IF IsIndexKey(x) THEN (IsIndexKey(y) => KeyIndex(x) < KeyIndex(y))
    ELSE ~IsIndexKey(y) /\ Pos(Keys(decl), x) < Pos(Keys(decl), y)

EntriesOrder(decl) ==
    [i \in 1 .. Len(decl) |->
        CHOOSE x \in Range(Keys(decl)) :
           Cardinality({y \in Range(Keys(decl)) : y # x /\ EntriesBefore(decl, y, x)}) = i - 1]

FieldOf(decl, key) == decl[Pos(Keys(decl), key)].val

\* the field encodings of v, concatenated in the given order of the fields
RECURSIVE ConcatFields(_, _, _)
ConcatFields(order, decl, v) ==
    IF order = <<>> THEN Ok(<<>>)
    ELSE LET e == encode(FieldOf(decl, Head(order)), GetProp(v, Head(order)))
             more == ConcatFields(Tail(order), decl, v)
         IN IF e.ok /\ more.ok THEN Ok(e.val \o more.val) ELSE [ok |-> FALSE]

\* the fields read from the bytes one after the other in the given order
RECURSIVE ReadFields(_, _, _, _)
ReadFields(order, decl, remaining, result) ==
    IF order = <<>> THEN OkRest(Obj(result), remaining)
    ELSE LET r == rawDecode(FieldOf(decl, Head(order)), remaining)
         IN IF ~r.ok THEN [ok |-> FALSE]
            ELSE ReadFields(Tail(order), decl, r.rest, WithKey(result, Head(order), r.val))

\* encode and decodeRaw of an object node follow the given order of its fields
FollowsOrder(order) ==
    /\ (pc = "encoded" /\ schema.k = "object" /\ input.t \notin {"undefined", "null"}) =>
          LET expected == ConcatFields(order, arg.decl, input)
          IN encoded.ok = expected.ok /\ (expected.ok => encoded = expected)
    /\ (pc \in {"rawdecoded", "bytesraw"} /\ schema.k = "object") =>
          LET expected == ReadFields(order, arg.decl, wire, <<>>)
          IN raw.ok = expected.ok /\ (expected.ok => raw = expected)

\* C9 as stated: for every object shape, whatever its field names, encode concatenates
\* the field encodings in declaration order and decodeRaw reads the fields in the same
\* declaration order.
C9_DeclarationOrder ==
    (pc \in {"encoded", "rawdecoded", "bytesraw"}) => FollowsOrder(Keys(arg.decl))

\* C9 amended: encode concatenates the field encodings, and decodeRaw reads the
\* fields, in the order Object.entries gives the shape: the fields whose names are
\* array indices ("0", "1", ...) first, in ascending numeric order, then the other
\* fields in declaration order.
C9_FieldOrder ==
    (pc \in {"encoded", "rawdecoded", "bytesraw"}) => FollowsOrder(EntriesOrder(arg.decl))

\* C9 witness: {b, 1} was declared in that order, and field 1 was written first
C9_Witness ==
    /\ pc = "encoded"
    /\ Keys(arg.decl) = <<"b", "1">>
    /\ Keys(schema.shape) = <<"1", "b">>
    /\ arg.decl[1].val = LeptonUnsignedInt(1) /\ arg.decl[2].val = LeptonUnsignedInt(1)
    /\ input = Obj([key \in {"b", "1"} |-> IF key = "b" THEN I(1) ELSE I(2)])
    /\ encoded = Ok(<<0, 2, 0, 1>>)

\* the names of r that base has keep the order they have in base
SameRelativeOrder(r, b) ==
    \A i, j \in 1 .. Len(r) :
       (i < j /\ r[i] \in Range(b) /\ r[j] \in Range(b)) => Pos(b, r[i]) < Pos(b, r[j])

\* C10 as stated: the fields of S.pick(K) and of S.omit(K) keep the relative order
\* they have in S, whatever the order in which K lists the keys.
C10_PickOmitKeepOrder ==
    (pc \in {"picked", "omitted"}) =>
        SameRelativeOrder(Keys(schema.shape), Keys(base.shape))

\* the order of the entries of S.pick(K): index names ascending, then the other names
\* in the order of their first occurrence in K
PickBefore(keys, x, y) ==
    IF IsIndexKey(x) THEN (IsIndexKey(y) => KeyIndex(x) < KeyIndex(y))
    ELSE ~IsIndexKey(y) /\ Pos(keys, x) < Pos(keys, y)

\* C10 amended: S.omit(K) holds the fields of S that K does not list, in the order
\* they have in S, whatever the order of K.  S.pick(K) holds the names of K that are
\* in S's shape (inherited names included, __proto__ excepted, which an assignment
\* does not make a property), each with what S's shape gives for it; the
\* names that are array indices come first in ascending order, and the others follow
\* in the order of their first occurrence in K, so their order is that of K, not of S.
C10_PickOmitOrder ==
    /\ pc = "omitted" =>
          /\ schema.shape = SelectSeq(base.shape, LAMBDA e : e.key \notin Range(arg.keys))
          /\ schema.isStrict = base.isStrict
    /\ pc = "picked" =>
          LET r == Keys(schema.shape)
          IN /\ Distinct(r)
             /\ Range(r) = {key \in Range(arg.keys) :
                               key \in DeclaredKeys(base) \cup ObjectPrototypeKeys}
             /\ \A i, j \in 1 .. Len(r) : i < j => PickBefore(arg.keys, r[i], r[j])
             /\ \A i \in 1 .. Len(r) :
                   schema.shape[i].val = IF r[i] \in DeclaredKeys(base)
                                         THEN FieldOf(base.shape, r[i]) ELSE Fn
             /\ schema.isStrict = base.isStrict

\* C10 witness: pick(["b", "a"]) of a shape declared {a, b} lists b before a
C10_Witness ==
    /\ pc = "picked"
    /\ arg.keys = <<"b", "a">>
    /\ Keys(base.shape) = <<"a", "b">>
    /\ Keys(schema.shape) = <<"b", "a">>

\* the last derivation made, when it returned a node
Derived(ops) == "op" \in DOMAIN arg /\ arg.op \in ops /\ schema.ok

\* the fields laid over those of S: the object literal given to extend, the shape of
\* the node given to merge
Overlay == IF arg.op = "extend" THEN ObjectLiteral(arg.shape) ELSE heap[arg.other].shape

\* the schema the overlay gives each name, and the strictness of the result
OverlayFields(r) ==
    /\ Distinct(Keys(r.shape))
    /\ Range(Keys(r.shape)) = DeclaredKeys(base) \cup Range(Keys(Overlay))
    /\ \A i \in 1 .. Len(r.shape) :
          r.shape[i].val = IF r.shape[i].key \in Range(Keys(Overlay))
                           THEN FieldOf(Overlay, r.shape[i].key)
                           ELSE FieldOf(base.shape, r.shape[i].key)
    /\ r.isStrict = IF arg.op = "extend" THEN base.isStrict
                    ELSE base.isStrict \/ heap[arg.other].isStrict

\* the fields of S followed by the entirely new fields of the overlay
Appended == base.shape \o SelectSeq(Overlay, LAMBDA e : e.key \notin DeclaredKeys(base))

\* C11 as stated: the fields of S.extend(shape) and of S.merge(T) are those of S with
\* the new schema at the old position on a collision, the entirely new fields appended
\* after all the fields of S; merge is strict iff S or T is.
C11_OverlayAppends ==
    Derived({"extend", "merge"}) =>
        /\ OverlayFields(schema.val)
        /\ Keys(schema.val.shape) = Keys(Appended)

\* C11 amended: S.extend(shape) and S.merge(T) hold the fields of S and the new ones,
\* each name with the new schema when the overlay has it and with S's otherwise.  The
\* names that are array indices come first, in ascending numeric order, those of the
\* overlay among those of S; the other names follow, those of S in the order they have
\* in S, a replaced one at its old position, then the entirely new ones in the order
\* of the overlay.  extend keeps S's strictness; merge is strict iff S or T is.
C11_Overlay ==
    Derived({"extend", "merge"}) =>
        /\ OverlayFields(schema.val)
        /\ \A i, j \in 1 .. Len(schema.val.shape) :
              i < j => EntriesBefore(Appended, schema.val.shape[i].key,
                                     schema.val.shape[j].key)

\* C11 witness: extend({1: string()}) of object({a, b?}) has the fields 1, a, b
C11_Witness ==
    /\ Derived({"extend"})
    /\ Keys(arg.shape) = <<"1">>
    /\ Keys(base.shape) = <<"a", "b">>
    /\ Keys(schema.val.shape) = <<"1", "a", "b">>

Refused == {i \in 1 .. Len(input.a) : ~parse(schema.elementType, input.a[i]).ok}

\* C13: validating an array against Array(S) fails on the element of lowest index i that
\* S refuses, with S's error and the path made of the index i written in decimal and of
\* the path of S's error; when S refuses no element it returns the validated elements.
C13_ElementPath ==
    (pc = "validated" /\ schema.k = "array" /\ input.t = "array") =>
        IF Refused = {}
        THEN /\ parsed.ok
             /\ parsed.val = Arr([i \in 1 .. Len(input.a) |->
                                     parse(schema.elementType, input.a[i]).val])
        ELSE LET i == CHOOSE x \in Refused : \A y \in Refused : x <= y
                 inner == parse(schema.elementType, input.a[i])
             IN /\ ~parsed.ok
                /\ parsed.kind = inner.kind
                /\ inner.lepton => parsed.path = <<ToString(i - 1)>> \o inner.path
                /\ Len(parsed.path) = Len(inner.path) + 1

\* C13 witness: [1, "A"] against array(uint8()) fails with the path ["1"], and
\* [[1], ["A"]] against array(array(uint8())) with the path ["1", "0"]
C13_Witness ==
    /\ pc = "validated"
    /\ schema.k = "array" /\ input.t = "array"
    /\ Len(input.a) = 2
    /\ ~parsed.ok
    /\ \/ schema.elementType = LeptonUnsignedInt(1) /\ input.a = <<I(1), Str(<<65>>)>>
          /\ parsed.path = <<"1">>
       \/ schema.elementType = LeptonArray(LeptonUnsignedInt(1))
          /\ input.a = <<Arr(<<I(1)>>), Arr(<<Str(<<65>>)>>)>>
          /\ parsed.path = <<"1", "0">>

\* C14: E.exclude(X) is an enum of exactly the values of E that are not in X, in the
\* order they have in E, when there is such a value; a value that is left and that
\* follows an excluded value in E is not encoded by the derived enum as it is by E.
C14_Exclude ==
    ("op" \in DOMAIN arg /\ arg.op = "exclude") =>
        LET E == base.values
            X == Range(arg.values.a)
        IN /\ schema.ok <=> Range(E) \ X # {}
           /\ schema.ok =>
                 /\ schema.val.k = "enum"
                 /\ schema.val.values = SelectSeq(E, LAMBDA v : v \notin X)
                 /\ \A j \in 1 .. Len(E) :
                       (E[j] \notin X /\ \E i \in 1 .. j - 1 : E[i] \in X) =>
                           /\ encode(schema.val, E[j]).ok /\ encode(base, E[j]).ok
                           /\ encode(schema.val, E[j]) # encode(base, E[j])

\* C14 witness: enum(["a", "b", "c"]).exclude(["b"]) has the options a, c and writes
\* c as 01, which the first enum writes as 02
C14_Witness ==
    /\ "op" \in DOMAIN arg /\ arg.op = "exclude"
    /\ base.values = <<Str(<<97>>), Str(<<98>>), Str(<<99>>)>>
    /\ arg.values.a = <<Str(<<98>>)>>
    /\ schema.ok /\ schema.val.values = <<Str(<<97>>), Str(<<99>>)>>
    /\ encode(schema.val, Str(<<99>>)).val = Hex(<<1>>)
    /\ encode(base, Str(<<99>>)).val = Hex(<<2>>)

\* C15 as stated: for a list V of values of E, in any order, E.extract(V) is an enum
\* of the values of E that are in V, in the order they have in E.
C15_ExtractKeepsOrder ==
    ("op" \in DOMAIN arg /\ arg.op = "extract"
        /\ arg.values.a # <<>> /\ Range(arg.values.a) \subseteq Range(base.values)) =>
        /\ schema.ok
        /\ schema.val.values = SelectSeq(base.values, LAMBDA v : v \in Range(arg.values.a))

\* C15 amended: E.extract(V) fails when V holds a value that is not in E, when V is
\* empty and when V holds a value twice; otherwise it is the enum of the list V itself,
\* its options in the order of V, not in that of E, which accepts the values of V and
\* refuses every value of E that is not in V.
C15_Extract ==
    ("op" \in DOMAIN arg /\ arg.op = "extract") =>
        LET E == base.values
            V == arg.values.a
        IN /\ schema.ok <=> (V # <<>> /\ Range(V) \subseteq Range(E) /\ Distinct(V))
           /\ schema.ok =>
                 /\ schema.val.k = "enum"
                 /\ schema.val.values = V
                 /\ \A v \in Range(E) : parse(schema.val, v).ok <=> v \in Range(V)
                 /\ \A i \in 1 .. Len(V) : encode(schema.val, V[i]).val = Hex(<<i - 1>>)

\* C15 witness: enum(["a", "b", "c"]).extract(["c", "a"]) has the options c, a
C15_Witness ==
    /\ "op" \in DOMAIN arg /\ arg.op = "extract"
    /\ base.values = <<Str(<<97>>), Str(<<98>>), Str(<<99>>)>>
    /\ arg.values.a = <<Str(<<99>>), Str(<<97>>)>>
    /\ schema.ok /\ schema.val.values = <<Str(<<99>>), Str(<<97>>)>>
    /\ ~parse(schema.val, Str(<<98>>)).ok

\* a non-empty list of strings without a value twice
ValidValues(values) ==
    /\ values.t = "array"
    /\ Len(values.a) > 0
    /\ \A i \in 1 .. Len(values.a) : typeof(values.a[i]) = "string"
    /\ Cardinality(Range(values.a)) = Len(values.a)

C17_EnumWire ==
    /\ (pc \in {"encoded", "rawdecoded"} /\ schema.k = "enum"
           /\ input \in Range(schema.values)) =>
          /\ encoded.ok
          /\ Len(encoded.val) = 2
          /\ parseInt16(encoded.val) = I(indexOf(schema.values, input))
          /\ pc = "rawdecoded" => raw = OkRest(input, trail)
    /\ (pc = "bytesraw" /\ schema.k = "enum") =>
          IF Len(wire) < 2 THEN ~raw.ok
          ELSE LET index == parseInt16(slice(wire, 0, 2))
               IN IF ~NumLt(index, I(Len(schema.values))) THEN ~raw.ok
                  ELSE raw = OkRest(ElementAt(schema.values, index), sliceFrom(wire, 2))

\* C18: parse of an enum returns its input unchanged when the input is one of the
\* declared values and fails for every other input, those that are not strings
\* included; encode fails for exactly the same inputs.
C18_Membership ==
    (pc \in {"validated", "encoded"} /\ schema.k = "enum") =>
        /\ IF input \in Range(schema.values) THEN parsed = Ok(input) ELSE ~parsed.ok
        /\ pc = "encoded" => (encoded.ok <=> input \in Range(schema.values))

\* the member values of a native enum: the values of its named keys
Members(s) ==
    {s.enumObject[j].val : j \in {i \in 1 .. Len(s.enumObject) :
                                     ~IsIndexKey(s.enumObject[i].key)}}

\* the member numbers of which the input is the string representation
Represented(s, v) ==
    {m \in Members(s) : typeof(m) = "number" /\ typeof(v) = "string" /\ ToStringJS(m) = v.s}

\* C19: parse of a native enum accepts a member value and returns it, accepts, for a
\* numeric enum, the string representation of a member number and returns the number,
\* and refuses every other input.
C19_NativeMembership ==
    (pc = "validated" /\ schema.k = "nativeEnum") =>
        IF input \in Members(schema) THEN parsed = Ok(input)
        ELSE IF schema.isNumericEnum /\ Represented(schema, input) # {}
        THEN parsed.ok /\ parsed.val \in Represented(schema, input)
        ELSE ~parsed.ok

\* the member values of the enum's kind, in the order in which the keys are declared
SameKind(s) ==
    LET named == SelectSeq(s.enumObject, LAMBDA e :
                     /\ ~IsIndexKey(e.key)
                     /\ typeof(e.val) = IF s.isNumericEnum THEN "number" ELSE "string")
    IN [i \in 1 .. Len(named) |-> named[i].val]

\* C20: encode(v) of a member value v of the kind of the native enum (numeric or
\* string, as the value of its first key) is one byte, the index of v in the list of
\* the member values of that kind in declaration order, and decode of it returns v.
C20_NativeIndex ==
    (pc \in {"encoded", "decoded"} /\ schema.k = "nativeEnum"
        /\ input \in Range(SameKind(schema))) =>
        /\ encoded.ok
        /\ encoded.val = Hex(<<indexOf(SameKind(schema), input)>>)
        /\ pc = "decoded" => decoded = Ok(input)

\* the flag byte a wrapper writes for its marker (undefined for Optional, null for
\* Nullable) and the one it writes before a value
MarkerOf(s) == IF s.k = "optional" THEN Undefined ELSE Null
MarkerFlag(s) == IF s.k = "optional" THEN Hex(<<0>>) ELSE Hex(<<1>>)
ValueFlag(s) == IF s.k = "optional" THEN Hex(<<1>>) ELSE Hex(<<0>>)

\* C21: Optional(S) writes undefined as the byte 00 and a present v as 01 then
\* S.encode(v); Nullable(S) writes null as 01 and another v as 00 then S.encode(v);
\* _rawDecode of each reads the marker's flag as the marker and leaves the bytes after
\* it, and reads the value's flag as what S reads in the bytes after it.
C21_FlagPolarity ==
    ("k" \in DOMAIN schema /\ schema.k \in {"optional", "nullable"}) =>
        /\ (pc \in {"encoded", "rawdecoded"} /\ input = MarkerOf(schema)) =>
              /\ encoded = Ok(MarkerFlag(schema))
              /\ pc = "rawdecoded" => raw = OkRest(MarkerOf(schema), trail)
        /\ (pc \in {"encoded", "rawdecoded"} /\ input # MarkerOf(schema)
               /\ encode(schema.wrappedType, input).ok) =>
              /\ encoded = Ok(ValueFlag(schema) \o encode(schema.wrappedType, input).val)
              /\ pc = "rawdecoded" =>
                    raw = rawDecode(schema.wrappedType,
                                    encode(schema.wrappedType, input).val \o trail)
        /\ (pc = "bytesraw" /\ Len(wire) >= 2) =>
              /\ slice(wire, 0, 2) = MarkerFlag(schema) =>
                    raw = OkRest(MarkerOf(schema), sliceFrom(wire, 2))
              /\ slice(wire, 0, 2) = ValueFlag(schema) =>
                    raw = rawDecode(schema.wrappedType, sliceFrom(wire, 2))

\* C21 witness: uint8().nullable() has written 1 as 00 01 and read it back with the
\* trailing byte left
C21_Witness ==
    /\ pc = "rawdecoded"
    /\ schema = LeptonNullable(LeptonUnsignedInt(1))
    /\ input = I(1)
    /\ encoded = Ok(Hex(<<0, 1>>))
    /\ trail # <<>>
    /\ raw = OkRest(I(1), trail)

\* C22: Optional(S).encode(x) fails for every x that is neither undefined nor accepted
\* by S, Nullable(S).encode(x) for every x that is neither null nor accepted by S, and
\* Array(S).encode(a) for every array a with an element that S refuses.
C22_WrapperEncodeRejects ==
    (pc = "encoded" /\ "k" \in DOMAIN schema) =>
        /\ (schema.k \in {"optional", "nullable"}
               /\ input # (IF schema.k = "optional" THEN Undefined ELSE Null)
               /\ ~parse(schema.wrappedType, input).ok) => ~encoded.ok
        /\ (schema.k = "array" /\ input.t = "array"
               /\ \E i \in 1 .. Len(input.a) : ~parse(schema.elementType, input.a[i]).ok)
              => ~encoded.ok

Primitives == {"sint", "uint", "bits", "boolean", "string", "bigint"}

\* C23: for a primitive node and a value that its validate refuses, encode fails with a
\* library error of the same kind as validate's and returns no bytes.
C23_EncodeRevalidates ==
    (pc = "encoded" /\ "k" \in DOMAIN schema /\ schema.k \in Primitives /\ ~parsed.ok) =>
        /\ ~encoded.ok
        /\ encoded.lepton
        /\ encoded.kind = parsed.kind

\* the input ends before a byte with its high bit clear: every byte of it, if any, has
\* the high bit set
Truncated(str) ==
    /\ Len(str) % 2 = 0
    /\ \A i \in 1 .. Len(str) : i % 2 = 1 => str[i] >= 8

Failed(r, kind) == "ok" \in DOMAIN r /\ ~r.ok /\ r.lepton /\ r.kind = kind

\* C24: decodeVarInt, and with it the BigVarInt, String and Array decoders, fails with
\* the insufficient-bytes error when the input ends before a byte with its high bit
\* clear is found, the empty input included.
C24_TruncatedVarInt ==
    (pc = "vbytes" /\ Truncated(wire)) =>
        /\ Failed(raw, "insufficient")
        /\ Failed(BigInt_rawDecode(wire), "insufficient")
        /\ Failed(String_rawDecode(wire), "insufficient")
        /\ Failed(Array_rawDecode(LeptonArray(LeptonUnsignedInt(1)), wire), "insufficient")

\* the place of (s, v) that a path of field names and indices leads to, from the
\* outermost container inwards; Optional and Nullable take no segment
RECURSIVE Locate(_, _, _)
Locate(s, v, path) ==
    IF s.k \in {"optional", "nullable"} THEN Locate(s.wrappedType, v, path)
    ELSE IF path = <<>> THEN [found |-> TRUE, s |-> s, v |-> v]
    ELSE IF s.k = "array" /\ v.t = "array"
            /\ \E i \in 1 .. Len(v.a) : ToString(i - 1) = Head(path)
    THEN LET i == CHOOSE i \in 1 .. Len(v.a) : ToString(i - 1) = Head(path)
         IN Locate(s.elementType, v.a[i], Tail(path))
    ELSE IF s.k = "object" /\ HasOwn(s.shape, Head(path)) /\ HasProp(v, Head(path))
    THEN Locate(FieldOf(s.shape, Head(path)), GetProp(v, Head(path)), Tail(path))
    ELSE [found |-> FALSE]

\* the path of the first failure of _rawDecode, followed from the outermost container
\* inwards
RECURSIVE DecodePath(_, _)
RECURSIVE ElementsPath(_, _, _, _)
RECURSIVE FieldsPath(_, _, _)
DecodePath(s, bytes) ==
    CASE s.k = "optional" /\ Len(bytes) >= 2 /\ slice(bytes, 0, 2) # Hex(<<0>>) ->
            DecodePath(s.wrappedType, sliceFrom(bytes, 2))
      [] s.k = "nullable" /\ Len(bytes) >= 2 /\ slice(bytes, 0, 2) # Hex(<<1>>) ->
            DecodePath(s.wrappedType, sliceFrom(bytes, 2))
      [] s.k = "array" ->
            ElementsPath(s, decodeVarInt(bytes).rest, decodeVarInt(bytes).val, 0)
      [] s.k = "object" -> FieldsPath(s, bytes, 1)
      [] OTHER -> <<>>

ElementsPath(s, remaining, arrayLength, i) ==
    IF i >= arrayLength THEN <<>>
    ELSE LET r == rawDecode(s.elementType, remaining)
         IN IF r.ok THEN ElementsPath(s, r.rest, arrayLength, i + 1)
            ELSE <<ToString(i)>> \o DecodePath(s.elementType, remaining)

FieldsPath(s, remaining, i) ==
    IF i > Len(s.shape) THEN <<>>
    ELSE LET r == rawDecode(s.shape[i].val, remaining)
         IN IF r.ok THEN FieldsPath(s, r.rest, i + 1)
            ELSE <<s.shape[i].key>> \o DecodePath(s.shape[i].val, remaining)

\* C25: when validate or decodeRaw fails inside nested containers, the path of the error
\* is made of the field names and the decimal indices of the enclosing containers, the
\* outermost first; Optional and Nullable add no segment. For validate the path leads,
\* from the value given, to a value that its schema refuses on the spot (with an empty
\* path) and with the same kind of error.
C25_NestedPath ==
    /\ (pc = "validated" /\ ~parsed.ok /\ parsed.lepton) =>
          LET at == Locate(schema, input, parsed.path)
          IN /\ at.found
             /\ parse(at.s, at.v) = [parsed EXCEPT !.path = <<>>]
    /\ (pc \in {"rawdecoded", "bytesraw"} /\ ~raw.ok /\ raw.lepton) =>
          raw.path = DecodePath(schema, wire)

\* C25 witness: the bytes 02 01 read by object({items: array(object({x: uint8()}))})
\* are two elements of which the second has no byte for x: the path is
\* ["items", "1", "x"]
C25_Witness ==
    /\ pc = "bytesraw"
    /\ schema.k = "object" /\ Keys(schema.shape) = <<"items">>
    /\ wire = Hex(<<2, 1>>)
    /\ ~raw.ok /\ raw.kind = "insufficient"
    /\ raw.path = <<"items", "1", "x">>

\* the low `bits` bits of a non-negative number below 2^32
LowBits(n, bits) ==
    IF bits >= 16 THEN N(n.hi % (2 ^ (bits - 16)), n.lo) ELSE N(0, n.lo % (2 ^ bits))

\* C26: BitInt(bits) reads ceil(bits / 8) bytes big-endian, masks them to the low `bits`
\* bits, so that the raw value lies in [0, 2^bits - 1], and leaves the bytes that follow;
\* with fewer bytes it fails with the insufficient-bytes error.
C26_BitsDecode ==
    (pc = "bytesraw" /\ "k" \in DOMAIN schema /\ schema.k = "bits") =>
        LET bytesNeeded == (schema.bitWidth + 7) \div 8
            bigEndian == DigitsValue(slice(wire, 0, bytesNeeded * 2), N(0, 0))
        IN IF Len(wire) < bytesNeeded * 2 THEN Failed(raw, "insufficient")
           ELSE /\ raw = OkRest(LowBits(bigEndian, schema.bitWidth),
                                sliceFrom(wire, bytesNeeded * 2))
                /\ ~NumLt(raw.val, I(0))
                /\ NumLt(raw.val, Pow2(schema.bitWidth))

IssuePathIsPath(r) ==
    ("ok" \in DOMAIN r /\ ~r.ok /\ r.lepton) => r.issues[1].path = r.path

\* C27: every library error that leaves validate, decodeRaw or decode, at any nesting
\* depth, has in its issues list (issues[0].path) the path it has as its path property.
C27_IssuePath == IssuePathIsPath(parsed) /\ IssuePathIsPath(raw) /\ IssuePathIsPath(decoded)

\* C28: for a value that validate accepts, decodeRaw of its encoding followed by any
\* trailing bytes returns those bytes as its remainder, and decode of it returns what
\* decode of the encoding alone returns; trailing bytes never make it fail.
C28_TrailingIgnored ==
    (pc \in {"rawdecoded", "decoded"} /\ parsed.ok) =>
        /\ raw.ok
        /\ raw.rest = trail
        /\ pc = "decoded" => decoded = decode(schema, encoded.val)

\* C29: for an object schema with an Optional field and a validated value in which that
\* field is absent, decode(encode(v)) has exactly the keys validate(v) has: the absent
\* field is not turned into a key holding undefined.
C29_AbsentStaysAbsent ==
    (pc = "decoded" /\ trail = <<>> /\ schema.k = "object" /\ parsed.ok
        /\ \E i \in 1 .. Len(schema.shape) :
              /\ IsOptional(schema.shape[i].val)
              /\ schema.shape[i].key \notin DOMAIN parsed.val.f) =>
        /\ decoded.ok
        /\ DOMAIN decoded.val.f = DOMAIN parsed.val.f

\* a schema built of the integer, BitInt, Boolean and BigVarInt nodes with Optional,
\* Nullable, Array and Object
RECURSIVE OfIntegers(_)
OfIntegers(s) ==
    CASE s.k \in {"sint", "uint", "bits", "boolean", "bigint"} -> TRUE
      [] s.k \in {"optional", "nullable"} -> OfIntegers(s.wrappedType)
      [] s.k = "array" -> OfIntegers(s.elementType)
      [] s.k = "object" -> \A i \in 1 .. Len(s.shape) : OfIntegers(s.shape[i].val)
      [] OTHER -> FALSE

Decodable == pc = "bytesraw" /\ "k" \in DOMAIN schema /\ raw.ok /\ parse(schema, raw.val).ok

\* C30 as stated: when decodeRaw(b) succeeds with (v, r) and validate accepts v, encode(v)
\* followed by r is b: decoding accepts only canonical encodings.
C30_Canonical ==
    Decodable => /\ encode(schema, raw.val).ok
                 /\ encode(schema, raw.val).val \o raw.rest = wire

\* C30, amended: decoding is lenient. Boolean reads every nonzero byte as true, Optional
\* every nonzero flag byte as present and Nullable every flag byte other than 01 as
\* value-follows (BitInt masks the bits above its width away and decodeVarInt reads
\* non-minimal encodings), so encode(v) followed by r need not be b; for a schema built of
\* the integer, BitInt, Boolean and BigVarInt nodes with Optional, Nullable, Array and
\* Object, when decodeRaw(b) succeeds with (v, r) and validate accepts v, encode(v)
\* succeeds and decodeRaw of encode(v) followed by r returns (v, r) again.
C30_DecodeNormalizes ==
    /\ (Decodable /\ OfIntegers(schema)) =>
          /\ encode(schema, raw.val).ok
          /\ rawDecode(schema, encode(schema, raw.val).val \o raw.rest) = raw
    /\ (pc = "bytesraw" /\ "k" \in DOMAIN schema /\ Len(wire) >= 2) =>
          LET first == slice(wire, 0, 2)
              rest == sliceFrom(wire, 2)
          IN /\ schema.k = "boolean" => raw = OkRest(Bool(first # Hex(<<0>>)), rest)
             /\ (schema.k = "optional" /\ first # Hex(<<0>>)) =>
                   raw = rawDecode(schema.wrappedType, rest)
             /\ (schema.k = "nullable" /\ first # Hex(<<1>>)) =>
                   raw = rawDecode(schema.wrappedType, rest)

\* C30 witness: Boolean reads the byte 02 as true, whose encoding is 01
C30_Witness ==
    /\ pc = "bytesraw"
    /\ schema = LeptonBoolean
    /\ wire = Hex(<<2>>)
    /\ raw = OkRest(Bool(TRUE), <<>>)
    /\ encode(schema, raw.val) = Ok(Hex(<<1>>))

====
